---------------------------- MODULE Spec2Model ----------------------------
(***************************************************************************)
(* A model of the blackjack expectation engine (crate `blackjack`):        *)
(*   - statearray.rs : CardCount, its 62-bit key, DoubleCardCountIndex     *)
(*   - calculation.rs: dealer odds, stand/hit expectations (1 thread and   *)
(*                     N threads), the betting-phase aggregator, the       *)
(*                     best-decision query                                 *)
(*   - simulation.rs / calculation2/dealer_ex.rs: the dealer's drawing rule *)
(* u128 values are kept as 8 little-endian limbs of 16 bits, so that the   *)
(* key arithmetic modulo MOD is the arithmetic of the code.  f64 values    *)
(* are kept as exact fractions <<n, d>>, with <<-1, 0>> for -infinity,     *)
(* <<1, 0>> for +infinity and <<0, 0>> for NaN.                            *)
(***************************************************************************)
EXTENDS Integers, Sequences, FiniteSets, TLC

VARIABLES
    \* ---- statearray.rs: two CardCount values and two paired indices
    cc1, cc2, trail, index_a, index_b,
    \* ---- the Rule every computation reads, and the dealer's up card
    rule, dealer_up_card,
    \* ---- the dealer's turn: her other cards, and what each implementation
    \* of her drawing rule decided on this hand
    dealer_extra_hand, must_stand,
    \* ---- memoization_find_win_lose_odds: the standing player's total, the
    \* shoe before the hole card is revealed, and the odds table
    player_sum, original_shoe, odds,
    \* ---- DpStrategySinglePlayer: the solution it holds, the hand it is
    \* asked about and the decision it returned
    solution_small, current_hand, decision,
    \* ---- the betting phase: the shoe the simulator holds, and the weights
    \* calculate_solution_without_initial_situation gave its combinations
    shoe, weights,
    \* ---- calculate_expectations on one initial situation: the table of the
    \* 1-thread run, and the N-thread run step by step (pc is the main
    \* thread's position, threads the workers, stand_writers the threads
    \* that wrote each dispatched stand value, inserted_keys the keys the
    \* stand phase added to the table)
    number_of_threads, initial_shoe, initial_hand, one_thread,
    ex_stand_hit, valid_pairs, dispatched_hands, threads, pc, main_next,
    joined, stand_writers, inserted_keys,
    \* ---- a SingleStateArray<i32>: its map, the CardCount it is indexed
    \* with, the value last written under each count vector that was mutably
    \* indexed since creation or clear(), the result of the last read, and
    \* the number of calls made
    sa, sa_handle, sa_model, sa_read, sa_ops,
    \* ---- SolutionForBettingPhase: for each dealer up card and each of the
    \* 55 slots, the initial situation whose result the slot holds; and the
    \* last answer of get_solution_for_initial_situation
    exs_other_decisions, sol,
    \* ---- the outcome of the last call of InitialSituation::new, with the
    \* arguments it was given
    initial_situation,
    \* ---- a Shoe: the object, the cards deal_card returned since the last
    \* shuffle or retry, the last call made on it with its argument and
    \* outcome, and the number of shuffles and retries so far
    shoe_obj, dealt, shoe_call, shuffles,
    \* ---- a Simulator: the object, the last call made on it, the rounds
    \* started so far, the settlements of the current round, whether the
    \* dealer peeked a natural in it, and the position of a running
    \* automatic_simulate_with_fixed_main_bet
    simulator, last_call, rounds, settled, peeked_natural, auto,
    \* ---- calculate_expectations called pair after pair on the table of one
    \* dealer up card: the shoe without the up card, the table, the table a
    \* call on an empty table gives for the last pair, and the last call
    solve_shoe, solve_table, solve_fresh, solve_call,
    \* ---- one recursive computation step by step: which one it is and what
    \* it was given, the shoe and the hand it works on, the calls that are
    \* open (each with the next card of its loop and the shoe and hand it
    \* was entered with), the keys of its table, and the last step taken
    walk, work_shoe, work_hand, frames, seen, last_step,
    \* ---- DealerPlay::update_dealer_odd: the dealer's hand plus the shoe,
    \* and the table of DealerHandValueProbability it fills (each entry with
    \* the hand it belongs to, the ranks its loop tried and the denominator
    \* it used)
    play_shoe, play_odd,
    \* ---- calculate_expectation_for_one_hand of the split engine: the hand
    \* and the dealer's distribution it is given, and the value it returned
    \* for each tag it was called with
    one_hand, one_ex

cardVars == <<cc1, cc2, trail, index_a, index_b>>
dealerVars == <<dealer_extra_hand, must_stand>>
oddsVars == <<player_sum, original_shoe, odds>>
decisionVars == <<solution_small, current_hand, decision>>
bettingVars == <<shoe, weights>>
engineVars == <<number_of_threads, initial_shoe, initial_hand, one_thread,
                ex_stand_hit, valid_pairs, dispatched_hands, threads, pc,
                main_next, joined, stand_writers, inserted_keys>>

arrayVars == <<sa, sa_handle, sa_model, sa_read, sa_ops>>
tableVars == <<exs_other_decisions, sol>>
situationVars == <<initial_situation>>
shoeVars == <<shoe_obj, dealt, shoe_call, shuffles>>
simVars == <<simulator, last_call, rounds, settled, peeked_natural, auto>>

solveVars == <<solve_shoe, solve_table, solve_fresh, solve_call>>
walkVars == <<walk, work_shoe, work_hand, frames, seen, last_step>>
playVars == <<play_shoe, play_odd>>
oneVars == <<one_hand, one_ex>>

\* the variables of the calculation specifications
coreVars == <<rule, dealer_up_card, cardVars, dealerVars, oddsVars,
              decisionVars, bettingVars, engineVars>>

\* the variables of the specifications of the containers and the simulator
laterVars == <<arrayVars, tableVars, situationVars, shoeVars, simVars>>

\* the variables of the specifications of whole computations
finalVars == <<solveVars, walkVars, playVars, oneVars>>

vars == <<coreVars, laterVars, finalVars>>

-----------------------------------------------------------------------------
(* u128 arithmetic on limbs *)

Radix == 2^16

U16(n) == n % Radix

\* a value below 2^31 as a u128
U128(n) == <<n % Radix, n \div Radix, 0, 0, 0, 0, 0, 0>>

RECURSIVE AddLimbs(_, _, _, _)
AddLimbs(a, b, i, carry) ==
    IF i > 8 THEN <<>>
    ELSE LET s == a[i] + b[i] + carry
         IN  <<s % Radix>> \o AddLimbs(a, b, i + 1, s \div Radix)

\* a + b (wrapping at 2^128)
Add128(a, b) == AddLimbs(a, b, 1, 0)

RECURSIVE SubLimbs(_, _, _, _)
SubLimbs(a, b, i, borrow) ==
    IF i > 8 THEN <<>>
    ELSE LET s == a[i] - b[i] - borrow
         IN  <<(s + Radix) % Radix>>
             \o SubLimbs(a, b, i + 1, IF s < 0 THEN 1 ELSE 0)

\* a - b, for a >= b
Sub128(a, b) == SubLimbs(a, b, 1, 0)

Less128(a, b) ==
    \E i \in 1..8 : a[i] < b[i] /\ \A j \in (i+1)..8 : a[j] = b[j]

RECURSIVE MulLimbs(_, _, _, _)
MulLimbs(a, k, i, carry) ==
    IF i > 8 THEN <<>>
    ELSE LET s == a[i] * k + carry
         IN  <<s % Radix>> \o MulLimbs(a, k, i + 1, s \div Radix)

\* a * k for a small factor k (a count, BASE, or a power of ten)
MulSmall(a, k) == MulLimbs(a, k, 1, 0)

\* x % m
RECURSIVE Rem128(_, _)
Rem128(x, m) ==
    IF Less128(x, m) THEN x
    ELSE LET r == Rem128(x, Add128(m, m))
         IN  IF Less128(r, m) THEN r ELSE Sub128(r, m)

RECURSIVE ShlLimbs(_, _, _, _)
ShlLimbs(x, q, r, i) ==
    IF i > 8 THEN <<>>
    ELSE LET lo == IF i - q >= 1 THEN x[i - q] ELSE 0
             hi == IF i - q - 1 >= 1 THEN x[i - q - 1] ELSE 0
         IN  <<((lo * 2^r) % Radix) + (hi \div 2^(16 - r))>>
             \o ShlLimbs(x, q, r, i + 1)

\* x << n, bits shifted beyond bit 127 are dropped
Shl128(x, n) == ShlLimbs(x, n \div 16, n % 16, 1)

RECURSIVE BitOr(_, _)
BitOr(x, y) ==
    IF x = 0 THEN y
    ELSE IF y = 0 THEN x
    ELSE (IF x % 2 = 1 \/ y % 2 = 1 THEN 1 ELSE 0) + 2 * BitOr(x \div 2, y \div 2)

RECURSIVE OrLimbs(_, _, _)
OrLimbs(a, b, i) ==
    IF i > 8 THEN <<>> ELSE <<BitOr(a[i], b[i])>> \o OrLimbs(a, b, i + 1)

\* a | b
Or128(a, b) == OrLimbs(a, b, 1)

RECURSIVE FromDecimalGroups(_, _)
FromDecimalGroups(groups, n) ==
    IF n = 0 THEN U128(0)
    ELSE Add128(MulSmall(FromDecimalGroups(groups, n-1), 1000), U128(groups[n]))

-----------------------------------------------------------------------------
(* f64 values as exact fractions <<n, d>> with d >= 0 *)

RECURSIVE Gcd(_, _)
Gcd(a, b) == IF b = 0 THEN a ELSE Gcd(b, a % b)

Abs(n) == IF n < 0 THEN -n ELSE n
Sign(n) == IF n < 0 THEN -1 ELSE IF n > 0 THEN 1 ELSE 0

NegInf == <<-1, 0>>
PosInf == <<1, 0>>
NaN == <<0, 0>>

\* the fraction n / d in lowest terms; n / 0 is an infinity, 0 / 0 is NaN
Frac(n, d) ==
    IF d = 0 THEN <<Sign(n), 0>>
    ELSE LET g == Gcd(Abs(n), Abs(d))
         IN  <<Sign(d) * (n \div g), Abs(d) \div g>>

F64(n) == <<n, 1>>

IsNaN(x) == x = NaN
IsFinite(x) == x[2] > 0

\* x + y
FAdd(x, y) ==
    IF IsNaN(x) \/ IsNaN(y) THEN NaN
    ELSE IF ~IsFinite(x) /\ ~IsFinite(y) THEN (IF x = y THEN x ELSE NaN)
    ELSE IF ~IsFinite(x) THEN x
    ELSE IF ~IsFinite(y) THEN y
    ELSE LET g == Gcd(x[2], y[2])
         IN  Frac(x[1] * (y[2] \div g) + y[1] * (x[2] \div g),
                  x[2] * (y[2] \div g))

FNeg(x) == <<-x[1], x[2]>>

\* x - y
FSub(x, y) == FAdd(x, FNeg(y))

\* x * y
FMul(x, y) ==
    IF IsNaN(x) \/ IsNaN(y) THEN NaN
    ELSE IF ~IsFinite(x) \/ ~IsFinite(y)
         THEN <<Sign(x[1]) * Sign(y[1]), 0>>
    ELSE LET g1 == Gcd(Abs(x[1]), y[2])
             g2 == Gcd(Abs(y[1]), x[2])
         IN  Frac((x[1] \div g1) * (y[1] \div g2),
                  (x[2] \div g2) * (y[2] \div g1))

\* x / y for finite x and y
FDiv(x, y) ==
    IF IsNaN(x) \/ IsNaN(y) THEN NaN
    ELSE Frac(x[1] * y[2], x[2] * y[1])

\* x < y; every comparison with NaN is false
FLess(x, y) ==
    IF IsNaN(x) \/ IsNaN(y) THEN FALSE
    ELSE IF ~IsFinite(x) \/ ~IsFinite(y)
         THEN (IF IsFinite(x) THEN y = PosInf
               ELSE IF IsFinite(y) THEN x = NegInf
               ELSE x = NegInf /\ y = PosInf)
    ELSE x[1] * y[2] < y[1] * x[2]

-----------------------------------------------------------------------------
(* statearray.rs: the key *)

\* const MOD: u128 = 3817949514078926267
MOD == FromDecimalGroups(<<3, 817, 949, 514, 78, 926, 267>>, 7)

BASE == 211

\* get_powers_of_base: ret[0] = 1, ret[i] = ret[i-1] * BASE % MOD
RECURSIVE get_powers_of_base(_)
get_powers_of_base(ret) ==
    IF Len(ret) = 10 THEN ret
    ELSE get_powers_of_base(
            Append(ret, Rem128(MulSmall(ret[Len(ret)], BASE), MOD)))

\* POW_BASE[card_value] is the code's POW_BASE[card_value - 1]
POW_BASE == get_powers_of_base(<<U128(1)>>)

CardValues == 1..10

\* [0; 10]
ZeroCounts == <<0, 0, 0, 0, 0, 0, 0, 0, 0, 0>>

\* the loop of propagate_counts over the key:
\* hash_value += POW_BASE[i] * counts[i], for the ranks above st.i
RECURSIVE HashAcc(_, _)
HashAcc(counts, st) ==
    IF st.i = 10 THEN st.hash_value
    ELSE HashAcc(counts,
            [i          |-> st.i + 1,
             hash_value |-> Add128(st.hash_value,
                                   MulSmall(POW_BASE[st.i + 1],
                                            counts[st.i + 1]))])

RECURSIVE SumAcc(_, _)
SumAcc(counts, i) ==
    IF i = 0 THEN 0 ELSE U16(SumAcc(counts, i-1) + U16(i * counts[i]))

RECURSIVE TotalAcc(_, _)
TotalAcc(counts, i) ==
    IF i = 0 THEN 0 ELSE U16(TotalAcc(counts, i-1) + counts[i])

\* CardCount::propagate_counts
propagate_counts(counts) ==
    [counts     |-> counts,
     hash_value |-> Rem128(HashAcc(counts, [i |-> 0, hash_value |-> U128(0)]), MOD),
     sum        |-> SumAcc(counts, 10),
     total      |-> TotalAcc(counts, 10)]

\* CardCount::new
CardCountNew(counts) == propagate_counts(counts)

\* CardCount::with_number_of_decks
with_number_of_decks(number_of_decks) ==
    LET c == (number_of_decks * 4) % 256
    IN  CardCountNew(<<c, c, c, c, c, c, c, c, c, (number_of_decks * 16) % 256>>)

\* CardCount::add_card
add_card(cc, card_value) ==
    [counts     |-> [cc.counts EXCEPT ![card_value] = U16(@ + 1)],
     hash_value |-> Rem128(Add128(cc.hash_value, POW_BASE[card_value]), MOD),
     sum        |-> U16(cc.sum + card_value),
     total      |-> U16(cc.total + 1)]

\* a faulty remove_card that forgets the running sum
remove_card_stale_sum(cc, card_value) ==
    [counts     |-> [cc.counts EXCEPT ![card_value] = U16(@ + Radix - 1)],
     hash_value |-> Rem128(Sub128(Add128(cc.hash_value, MOD),
                                  POW_BASE[card_value]), MOD),
     sum        |-> cc.sum,
     total      |-> U16(cc.total + Radix - 1)]

\* CardCount::remove_card (the u16 fields wrap, as in a release build)
remove_card(cc, card_value) ==
    [counts     |-> [cc.counts EXCEPT ![card_value] = U16(@ + Radix - 1)],
     hash_value |-> Rem128(Sub128(Add128(cc.hash_value, MOD),
                                  POW_BASE[card_value]), MOD),
     sum        |-> U16(cc.sum + Radix - card_value),
     total      |-> U16(cc.total + Radix - 1)]

RECURSIVE AddCounts(_, _, _)
AddCounts(a, b, i) ==
    IF i > 10 THEN <<>> ELSE <<U16(a[i] + b[i])>> \o AddCounts(a, b, i + 1)

RECURSIVE SubCounts(_, _, _)
SubCounts(a, b, i) ==
    IF i > 10 THEN <<>>
    ELSE <<U16(a[i] + Radix - b[i])>> \o SubCounts(a, b, i + 1)

\* impl AddAssign<&CardCount> for CardCount
add_assign(cc, rhs) ==
    [counts     |-> AddCounts(cc.counts, rhs.counts, 1),
     hash_value |-> Rem128(Add128(cc.hash_value, rhs.hash_value), MOD),
     sum        |-> U16(cc.sum + rhs.sum),
     total      |-> U16(cc.total + rhs.total)]

\* impl SubAssign<&CardCount> for CardCount
sub_assign(cc, rhs) ==
    [counts     |-> SubCounts(cc.counts, rhs.counts, 1),
     hash_value |-> Rem128(Sub128(Add128(cc.hash_value, MOD),
                                  rhs.hash_value), MOD),
     sum        |-> U16(cc.sum + Radix - rhs.sum),
     total      |-> U16(cc.total + Radix - rhs.total)]

get_sum(cc) == cc.sum
get_total(cc) == cc.total
is_soft(cc) == cc.counts[1] > 0
bust(cc) == cc.sum > 21
is_natural(cc) == cc.total = 2 /\ cc.counts[1] = 1 /\ cc.counts[10] = 1
get_actual_sum(cc) ==
    IF is_soft(cc) /\ cc.sum + 10 <= 21 THEN cc.sum + 10 ELSE cc.sum

\* impl PartialEq for CardCount: keys only
CardCountEq(a, b) == a.hash_value = b.hash_value

\* enum HandState { PlaceHolder = 0, Normal, Surrender, Double }, cast `as u128`
HandState == 0..3

\* a faulty DoubleCardCountIndex::new whose tag overlaps the first key
DoubleCardCountIndexNew_tag61(hand0, mul0, hand1) ==
    [hash_value |->
        Or128(Or128(hand0.hash_value, Shl128(U128(mul0), 61)),
              Shl128(hand1.hash_value, 64))]

\* DoubleCardCountIndex::new
DoubleCardCountIndexNew(hand0, mul0, hand1) ==
    [hash_value |->
        Or128(Or128(hand0.hash_value, Shl128(U128(mul0), 62)),
              Shl128(hand1.hash_value, 64))]

\* tests::horner_method: the key recomputed from scratch,
\* for i in (0..10).rev() { ret = (ret * BASE + counts[i]) % MOD }
RECURSIVE horner_loop(_, _)
horner_loop(counts, st) ==
    IF st.i = 0 THEN st.ret
    ELSE horner_loop(counts,
            [i   |-> st.i - 1,
             ret |-> Rem128(Add128(MulSmall(st.ret, BASE),
                                   U128(counts[st.i])), MOD)])

horner_method(counts) == horner_loop(counts, [i |-> 10, ret |-> U128(0)])

-----------------------------------------------------------------------------
(* lib.rs: Rule; the dealer's drawing rule in its three implementations *)

PeekPolicy == {"UpAceOrTen", "UpAce", "NoPeek"}

\* tests::get_typical_rule (the fields the engine reads)
get_typical_rule ==
    [number_of_decks      |-> 8,
     dealer_hit_on_soft17 |-> FALSE,
     allow_late_surrender |-> FALSE,
     peek_policy          |-> "UpAce",
     charlie_number       |-> 6,
     payout_blackjack     |-> <<3, 2>>]

\* memoization_find_win_lose_odds, "Case 1: Dealer must stand" (the branches
\* that return before a card is drawn); the hand is the up card plus
\* dealer_extra_hand
find_win_lose_odds_must_stand(r, up_card, extra_hand) ==
    LET dealer_sum == get_sum(extra_hand) + up_card
        soft       == is_soft(extra_hand) \/ up_card = 1
        lower_bound == IF r.dealer_hit_on_soft17 THEN 18 ELSE 17
    IN  \/ dealer_sum > 21
        \/ dealer_sum >= 17
        \/ /\ soft
           /\ \/ dealer_sum + 10 = 21 /\ get_total(extra_hand) = 1
              \/ dealer_sum + 10 >= lower_bound /\ dealer_sum + 10 <= 21

\* DealerPlay::memoization_dealer_gets_cards, "Case 1: Dealer must stand"
dealer_gets_cards_must_stand(r, dealer_hand) ==
    LET actual_sum == get_actual_sum(dealer_hand)
    IN  \/ bust(dealer_hand)
        \/ actual_sum > 17
        \/ /\ actual_sum = 17
           /\ (~is_soft(dealer_hand) \/ ~r.dealer_hit_on_soft17)

\* Simulator::dealer_plays_and_summary, must_stand
dealer_plays_must_stand(r, dealer_card_count) ==
    LET actual_sum == get_actual_sum(dealer_card_count)
        soft       == is_soft(dealer_card_count)
    IN  IF actual_sum > 17 THEN TRUE
        ELSE IF actual_sum < 17 THEN FALSE
        ELSE IF ~soft THEN TRUE
        ELSE ~r.dealer_hit_on_soft17

-----------------------------------------------------------------------------
(* calculation.rs: Expectation, get_max_expectation; strategy.rs: make_decision *)

\* impl Default for Expectation
DefaultExpectation == [hit |-> NegInf, stand |-> NegInf]

\* StateArray: a map from CardCount keys to values; reading a key that is
\* absent panics, writing it inserts it
contains_state(table, cc) == cc.hash_value \in DOMAIN table
StateAt(table, cc) == table[cc.hash_value]
StatePut(table, cc, value) ==
    [k \in DOMAIN table \cup {cc.hash_value} |->
        IF k = cc.hash_value THEN value ELSE table[k]]

Panicked == [ex |-> NaN, decision |-> "panic"]

\* a get_max_expectation that lets a later action win a tie
get_max_expectation_last_wins(solution, state, r) ==
    IF bust(state) THEN [ex |-> F64(-1), decision |-> "Stand"]
    ELSE IF get_total(state) >= r.charlie_number
         THEN [ex |-> F64(1), decision |-> "Stand"]
    ELSE IF ~contains_state(solution, state) THEN Panicked
    ELSE LET start == IF r.allow_late_surrender
                      THEN [ex |-> <<-1, 2>>, decision |-> "Surrender"]
                      ELSE [ex |-> NegInf, decision |-> "PlaceHolder"]
             ex == StateAt(solution, state)
             s1 == IF ~FLess(ex.stand, start.ex)
                   THEN [ex |-> ex.stand, decision |-> "Stand"] ELSE start
         IN  IF ~FLess(ex.hit, s1.ex)
             THEN [ex |-> ex.hit, decision |-> "Hit"] ELSE s1

\* get_max_expectation
get_max_expectation(solution, state, r) ==
    IF bust(state) THEN [ex |-> F64(-1), decision |-> "Stand"]
    ELSE IF get_total(state) >= r.charlie_number
         THEN [ex |-> F64(1), decision |-> "Stand"]
    ELSE IF ~contains_state(solution, state) THEN Panicked
    ELSE LET start == IF r.allow_late_surrender
                      THEN [ex |-> <<-1, 2>>, decision |-> "Surrender"]
                      ELSE [ex |-> NegInf, decision |-> "PlaceHolder"]
             ex == StateAt(solution, state)
             s1 == IF FLess(start.ex, ex.stand)
                   THEN [ex |-> ex.stand, decision |-> "Stand"] ELSE start
         IN  IF FLess(s1.ex, ex.hit)
             THEN [ex |-> ex.hit, decision |-> "Hit"] ELSE s1

\* DpStrategySinglePlayer::make_decision
make_decision(solution, r, hand) ==
    LET m0 == get_max_expectation(solution.ex_stand_hit, hand, r)
        m1 == IF FLess(m0.ex, solution.ex_double)
              THEN [ex |-> solution.ex_double, decision |-> "Double"] ELSE m0
        m2 == IF FLess(m1.ex, solution.ex_split)
              THEN [ex |-> solution.ex_split, decision |-> "Split"] ELSE m1
    IN  IF m0.decision = "panic" THEN "panic"
        ELSE IF get_total(hand) = 2 THEN m2.decision
        ELSE m0.decision

-----------------------------------------------------------------------------
(* calculation.rs: the dealer's odds against a standing player *)

\* impl Default for WinLoseCasesOdds
DefaultOdds == [win |-> F64(0), push |-> F64(0), lose |-> F64(0)]

\* an odds table as the recursion carries it; panicked once a key that is
\* absent was read
NewOdds == [table |-> <<>>, panicked |-> FALSE]

\* a faulty add_to_win_lose_cases_count that drops the pushes
add_to_win_lose_cases_count_no_push(p_sum, dealer_sum, count, delta) ==
    IF p_sum < dealer_sum THEN [count EXCEPT !.lose = FAdd(@, delta)]
    ELSE IF p_sum = dealer_sum THEN count
    ELSE [count EXCEPT !.win = FAdd(@, delta)]

\* add_to_win_lose_cases_count
add_to_win_lose_cases_count(p_sum, dealer_sum, count, delta) ==
    IF p_sum < dealer_sum THEN [count EXCEPT !.lose = FAdd(@, delta)]
    ELSE IF p_sum = dealer_sum THEN [count EXCEPT !.push = FAdd(@, delta)]
    ELSE [count EXCEPT !.win = FAdd(@, delta)]

\* odds[dealer_extra_hand] through IndexMut: the entry, inserted if absent
OddsEntry(table, cc) ==
    IF contains_state(table, cc) THEN StateAt(table, cc) ELSE DefaultOdds

\* impl Mul<f64> for WinLoseCasesOdds, impl AddAssign<&WinLoseCasesOdds>
OddsMul(o, p) ==
    [win |-> FMul(o.win, p), push |-> FMul(o.push, p), lose |-> FMul(o.lose, p)]
OddsAdd(a, b) ==
    [win |-> FAdd(a.win, b.win), push |-> FAdd(a.push, b.push),
     lose |-> FAdd(a.lose, b.lose)]

\* memoization_find_win_lose_odds, "Case 2": (next_card_min, next_card_max,
\* current_valid_shoe_total)
next_card_range(r, up_card, orig_shoe, extra_hand) ==
    LET rest == get_total(orig_shoe) - get_total(extra_hand)
        all  == get_total(orig_shoe)
    IN  IF get_total(extra_hand) # 0 THEN <<1, 10, rest>>
        ELSE IF r.peek_policy = "UpAceOrTen"
             THEN (IF up_card = 1 THEN <<1, 9, all - orig_shoe.counts[10]>>
                   ELSE IF up_card = 10
                        THEN <<2, 10, all - orig_shoe.counts[1]>>
                   ELSE <<1, 10, all>>)
        ELSE IF r.peek_policy = "UpAce"
             THEN (IF up_card = 1 THEN <<1, 9, all - orig_shoe.counts[10]>>
                   ELSE <<1, 10, all>>)
        ELSE <<1, 10, rest>>

RECURSIVE memoization_find_win_lose_odds(_, _, _, _, _, _)
RECURSIVE dealer_next_card_loop(_, _, _, _, _, _, _)

\* the loop `for card in next_card_min..=next_card_max`; st.card is the next
\* card to try, st.odds the table so far
dealer_next_card_loop(r, p_sum, up_card, orig_shoe, extra_hand, range, st) ==
    IF st.card > range[2] \/ st.odds.panicked THEN st.odds
    ELSE IF extra_hand.counts[st.card] = orig_shoe.counts[st.card]
    THEN dealer_next_card_loop(r, p_sum, up_card, orig_shoe, extra_hand, range,
            [card |-> st.card + 1, odds |-> st.odds])
    ELSE LET drawn == add_card(extra_hand, st.card)
             sub   == memoization_find_win_lose_odds(r, p_sum, up_card,
                            orig_shoe, drawn, st.odds)
             back  == remove_card(drawn, st.card)
             p     == Frac(orig_shoe.counts[st.card] - back.counts[st.card],
                           range[3])
         IN  IF sub.panicked \/ ~contains_state(sub.table, drawn)
             THEN [table |-> sub.table, panicked |-> TRUE]
             ELSE dealer_next_card_loop(r, p_sum, up_card, orig_shoe,
                    extra_hand, range,
                    [card |-> st.card + 1,
                     odds |-> [table |-> StatePut(sub.table, back,
                                  OddsAdd(OddsEntry(sub.table, back),
                                          OddsMul(StateAt(sub.table, drawn), p))),
                               panicked |-> FALSE]])

\* memoization_find_win_lose_odds
memoization_find_win_lose_odds(r, p_sum, up_card, orig_shoe, extra_hand, memo) ==
    IF memo.panicked \/ contains_state(memo.table, extra_hand) THEN memo
    ELSE LET dealer_sum  == get_sum(extra_hand) + up_card
             soft        == is_soft(extra_hand) \/ up_card = 1
             lower_bound == IF r.dealer_hit_on_soft17 THEN 18 ELSE 17
             range       == next_card_range(r, up_card, orig_shoe, extra_hand)
             Put(value)  == [table |-> StatePut(memo.table, extra_hand, value),
                             panicked |-> FALSE]
         IN  IF dealer_sum > 21
             THEN Put([DefaultOdds EXCEPT !.win = F64(1)])
             ELSE IF dealer_sum >= 17
             THEN Put(add_to_win_lose_cases_count(p_sum, dealer_sum,
                        OddsEntry(memo.table, extra_hand), F64(1)))
             ELSE IF soft /\ dealer_sum + 10 = 21 /\ get_total(extra_hand) = 1
             THEN Put([DefaultOdds EXCEPT !.lose = F64(1)])
             ELSE IF soft /\ dealer_sum + 10 >= lower_bound /\ dealer_sum + 10 <= 21
             THEN Put(add_to_win_lose_cases_count(p_sum, dealer_sum + 10,
                        OddsEntry(memo.table, extra_hand), F64(1)))
             ELSE dealer_next_card_loop(r, p_sum, up_card, orig_shoe,
                        extra_hand, range, [card |-> range[1], odds |-> memo])

\* get_card_probability
get_card_probability(given_shoe, impossible_dealer_hole_card, target_card) ==
    LET total == F64(get_total(given_shoe))
        target_number == F64(given_shoe.counts[target_card])
        p_hole_card_is_target_card ==
            IF impossible_dealer_hole_card = target_card THEN F64(0)
            ELSE FDiv(target_number,
                      F64(get_total(given_shoe)
                            - given_shoe.counts[impossible_dealer_hole_card]))
        shoe_total_minus_one == F64(U16(get_total(given_shoe) + Radix - 1))
        p1 == FDiv(FMul(p_hole_card_is_target_card,
                        F64(U16(given_shoe.counts[target_card] + Radix - 1))),
                   shoe_total_minus_one)
        p2 == FDiv(FMul(FSub(F64(1), p_hole_card_is_target_card), target_number),
                   shoe_total_minus_one)
    IN  IF impossible_dealer_hole_card = 0 THEN FDiv(target_number, total)
        ELSE FAdd(p1, p2)

\* get_impossible_dealer_hole_card
get_impossible_dealer_hole_card(r, up_card) ==
    IF r.peek_policy = "UpAceOrTen"
    THEN (IF up_card = 1 THEN 10 ELSE IF up_card = 10 THEN 1 ELSE 0)
    ELSE IF r.peek_policy = "UpAce" THEN (IF up_card = 1 THEN 10 ELSE 0)
    ELSE 0

\* calculate_stand_odds; it panics when the root of the odds table is absent
calculate_stand_odds(r, player_hand, up_card, given_shoe) ==
    LET p_dealer_also_natural ==
            IF r.peek_policy = "UpAceOrTen" THEN F64(0)
            ELSE IF r.peek_policy = "UpAce"
                 THEN (IF up_card = 10
                       THEN get_card_probability(given_shoe, 0, 1) ELSE F64(0))
            ELSE IF up_card = 1 THEN get_card_probability(given_shoe, 0, 10)
            ELSE IF up_card = 10 THEN get_card_probability(given_shoe, 0, 1)
            ELSE F64(0)
        extra_hand == CardCountNew(ZeroCounts)
        memo == memoization_find_win_lose_odds(r, get_actual_sum(player_hand),
                    up_card, given_shoe, extra_hand, NewOdds)
    IN  IF is_natural(player_hand)
        THEN [panicked |-> FALSE,
              win  |-> FSub(F64(1), p_dealer_also_natural),
              push |-> p_dealer_also_natural,
              lose |-> F64(0)]
        ELSE IF memo.panicked \/ ~contains_state(memo.table, extra_hand)
        THEN [panicked |-> TRUE, win |-> NaN, push |-> NaN, lose |-> NaN]
        ELSE [panicked |-> FALSE,
              win  |-> StateAt(memo.table, extra_hand).win,
              push |-> StateAt(memo.table, extra_hand).push,
              lose |-> StateAt(memo.table, extra_hand).lose]

\* the stand expectation written from the stand odds
\* a stand value that pays a natural even money
stand_expectation_even_money(r, hand, stand_odds) ==
    FSub(stand_odds.win, stand_odds.lose)

\* the stand value written from the stand odds, in both paths
stand_expectation(r, hand, stand_odds) ==
    IF is_natural(hand)
    THEN FSub(FMul(stand_odds.win, r.payout_blackjack), stand_odds.lose)
    ELSE FSub(stand_odds.win, stand_odds.lose)

-----------------------------------------------------------------------------
(* calculation.rs: stand and hit expectations with one thread *)

\* a stand/hit table as the recursion carries it
NewTable == [table |-> <<>>, panicked |-> FALSE]

HasPanicked(res) == [table |-> res.table, panicked |-> TRUE]

\* ex_stand_hit[hand].hit += delta, through IndexMut
AddToHit(table, hand, delta) ==
    LET ex == IF contains_state(table, hand) THEN StateAt(table, hand)
              ELSE DefaultExpectation
    IN  StatePut(table, hand, [ex EXCEPT !.hit = FAdd(@, delta)])

\* ex_stand_hit[hand].stand = value, through IndexMut
SetStand(table, hand, value) ==
    LET ex == IF contains_state(table, hand) THEN StateAt(table, hand)
              ELSE DefaultExpectation
    IN  StatePut(table, hand, [ex EXCEPT !.stand = value])

\* a stand value that is recorded as minus infinity without a look at the
\* dealer, even on hands of 12 to 16
records_minus_infinity_below_17(hand) ==
    get_actual_sum(hand) <= 16 /\ get_total(hand) # 3

\* `current_hand.get_actual_sum() <= 11 && current_hand.get_total() != 3`:
\* the stand value is recorded as minus infinity
records_minus_infinity(hand) ==
    get_actual_sum(hand) <= 11 /\ get_total(hand) # 3

RECURSIVE memoization_calculate_stand_hit_expectation(_, _, _, _, _, _)
RECURSIVE memoization_hit_loop(_, _, _, _, _, _)

\* the loop `for i in 1..=10` of memoization_calculate_stand_hit_expectation
memoization_hit_loop(r, up_card, impossible, cur_shoe, cur_hand, st) ==
    IF st.card > 10 \/ st.res.panicked THEN st.res
    ELSE IF cur_shoe.counts[st.card] = 0
    THEN memoization_hit_loop(r, up_card, impossible, cur_shoe, cur_hand,
            [card |-> st.card + 1, res |-> st.res])
    ELSE LET next_shoe == remove_card(cur_shoe, st.card)
             next_hand == add_card(cur_hand, st.card)
             sub == memoization_calculate_stand_hit_expectation(r, up_card,
                        impossible, next_shoe, next_hand, st.res)
             mx == get_max_expectation(sub.table, next_hand, r)
             back_hand == remove_card(next_hand, st.card)
             back_shoe == add_card(next_shoe, st.card)
             p == get_card_probability(back_shoe, impossible, st.card)
         IN  IF sub.panicked \/ mx.decision = "panic" THEN HasPanicked(sub)
             ELSE memoization_hit_loop(r, up_card, impossible, cur_shoe, cur_hand,
                    [card |-> st.card + 1,
                     res  |-> [table |-> AddToHit(sub.table, back_hand,
                                                  FMul(p, mx.ex)),
                               panicked |-> FALSE]])

\* memoization_calculate_stand_hit_expectation
memoization_calculate_stand_hit_expectation(r, up_card, impossible, cur_shoe, cur_hand, res) ==
    IF res.panicked \/ contains_state(res.table, cur_hand) THEN res
    ELSE LET Put(ex) == [table |-> StatePut(res.table, cur_hand, ex),
                         panicked |-> FALSE]
             stand_odds == calculate_stand_odds(r, cur_hand, up_card, cur_shoe)
             looped == memoization_hit_loop(r, up_card, impossible, cur_shoe,
                          cur_hand,
                          [card |-> 1,
                           res  |-> Put([DefaultExpectation EXCEPT !.hit = F64(0)])])
         IN  IF bust(cur_hand)
             THEN Put([DefaultExpectation EXCEPT !.stand = F64(-1)])
             ELSE IF get_total(cur_hand) = r.charlie_number
             THEN Put([DefaultExpectation EXCEPT !.stand = F64(1)])
             ELSE IF get_actual_sum(cur_hand) = 21
             THEN (IF stand_odds.panicked THEN HasPanicked(res)
                   ELSE Put([DefaultExpectation EXCEPT
                                !.stand = stand_expectation(r, cur_hand, stand_odds)]))
             ELSE IF looped.panicked THEN looped
             ELSE IF records_minus_infinity(cur_hand)
             THEN [table |-> SetStand(looped.table, cur_hand, NegInf),
                   panicked |-> FALSE]
             ELSE IF stand_odds.panicked THEN HasPanicked(looped)
             ELSE [table |-> SetStand(looped.table, cur_hand,
                                FSub(stand_odds.win, stand_odds.lose)),
                   panicked |-> FALSE]

-----------------------------------------------------------------------------
(* calculation_states.rs and calculation.rs: the steps of the N-thread run *)

\* HandShoePair
HandShoePair(hand, given_shoe) == [hand |-> hand, shoe |-> given_shoe]

\* while result.len() <= feature { result.push(vec![]) }
RECURSIVE PushLevels(_, _)
PushLevels(result, feature) ==
    IF Len(result) > feature THEN result
    ELSE PushLevels(Append(result, <<>>), feature)

RECURSIVE gather_hand_count_states_aux(_, _, _, _, _, _)
RECURSIVE gather_loop(_, _, _, _, _)

\* the loop `for i in loop_start_card..=10` of gather_hand_count_states_aux
gather_loop(charlie_number, record, cur_hand, cur_shoe, st) ==
    IF st.card > 10 THEN st.result
    ELSE IF cur_shoe.counts[st.card] = 0
    THEN gather_loop(charlie_number, record, cur_hand, cur_shoe,
            [card |-> st.card + 1, result |-> st.result])
    ELSE gather_loop(charlie_number, record, cur_hand, cur_shoe,
            [card   |-> st.card + 1,
             result |-> gather_hand_count_states_aux(charlie_number, record,
                            add_card(cur_hand, st.card),
                            remove_card(cur_shoe, st.card),
                            st.card, st.result)])

\* gather_hand_count_states_aux; result[feature + 1] is the code's
\* result[feature], with feature = the number of cards of the hand
gather_hand_count_states_aux(charlie_number, record, cur_hand, cur_shoe, loop_start_card, result) ==
    IF contains_state(record, cur_hand) THEN result
    ELSE LET feature == get_total(cur_hand)
             levels  == PushLevels(result, feature)
             pushed  == [levels EXCEPT ![feature + 1] =
                            Append(@, HandShoePair(cur_hand, cur_shoe))]
         IN  IF get_sum(cur_hand) >= 21 \/ get_total(cur_hand) = charlie_number
             THEN pushed
             ELSE gather_loop(charlie_number, record, cur_hand, cur_shoe,
                    [card |-> loop_start_card, result |-> pushed])

\* gather_hand_count_states
gather_hand_count_states(hand, given_shoe, charlie_number, record) ==
    gather_hand_count_states_aux(charlie_number, record, hand, given_shoe, 1, <<>>)

\* the pairs in the order of `for pairs in &valid_pairs { for pair in pairs`
RECURSIVE InOrder(_, _)
InOrder(levels, i) ==
    IF i > Len(levels) THEN <<>> ELSE levels[i] \o InOrder(levels, i + 1)

\* the pairs in the order of `for pairs in valid_pairs.iter_mut().rev()`
RECURSIVE InReverseLevelOrder(_, _)
InReverseLevelOrder(levels, i) ==
    IF i = 0 THEN <<>> ELSE levels[i] \o InReverseLevelOrder(levels, i - 1)

\* a pass from the lowest level to the highest
hit_pass_order_forward(levels) == InOrder(levels, 1)

\* the order of the hit pass, `for pairs in valid_pairs.iter_mut().rev()`
hit_pass_order(levels) == InReverseLevelOrder(levels, Len(levels))

\* multithreading_calculate_stand_hit_expectation, the loop that writes the
\* obvious cases and dispatches the other pairs round-robin;
\* st.dispatched[t + 1] is the code's dispatched_hands[t]
RECURSIVE dispatch_loop(_, _, _, _)
dispatch_loop(r, n_threads, pairs, st) ==
    IF st.k > Len(pairs) THEN st
    ELSE LET pair == pairs[st.k]
             Obvious(ex) ==
                [k |-> st.k + 1, table |-> StatePut(st.table, pair.hand, ex),
                 dispatched |-> st.dispatched, state_count |-> st.state_count]
             slot == (st.state_count % n_threads) + 1
         IN  dispatch_loop(r, n_threads, pairs,
                IF bust(pair.hand)
                THEN Obvious([DefaultExpectation EXCEPT !.stand = F64(-1)])
                ELSE IF get_total(pair.hand) = r.charlie_number
                THEN Obvious([DefaultExpectation EXCEPT !.stand = F64(1)])
                ELSE IF records_minus_infinity(pair.hand)
                THEN Obvious([stand |-> NegInf, hit |-> F64(0)])
                ELSE [k |-> st.k + 1,
                      table |-> StatePut(st.table, pair.hand,
                                    IF get_actual_sum(pair.hand) = 21
                                    THEN [DefaultExpectation EXCEPT !.stand = F64(0)]
                                    ELSE [stand |-> F64(0), hit |-> F64(0)]),
                      dispatched |-> [st.dispatched EXCEPT ![slot] = Append(@, pair)],
                      state_count |-> st.state_count + 1])

\* the loop `for next_card in 1..=10` of the hit pass
RECURSIVE hit_card_loop(_, _, _, _)
hit_card_loop(r, impossible, pair, st) ==
    IF st.card > 10 \/ st.res.panicked THEN st.res
    ELSE IF pair.shoe.counts[st.card] = 0
    THEN hit_card_loop(r, impossible, pair, [card |-> st.card + 1, res |-> st.res])
    ELSE LET next_hand == add_card(pair.hand, st.card)
             mx == get_max_expectation(st.res.table, next_hand, r)
             back_hand == remove_card(next_hand, st.card)
             p == get_card_probability(pair.shoe, impossible, st.card)
         IN  IF mx.decision = "panic" THEN HasPanicked(st.res)
             ELSE hit_card_loop(r, impossible, pair,
                    [card |-> st.card + 1,
                     res  |-> [table |-> AddToHit(st.res.table, back_hand,
                                                  FMul(p, mx.ex)),
                               panicked |-> FALSE]])

\* the hit pass over the pairs, "Calculate expectation of Hit."
RECURSIVE hit_pass_loop(_, _, _, _)
hit_pass_loop(r, impossible, pairs, st) ==
    IF st.k > Len(pairs) \/ st.res.panicked THEN st.res
    ELSE LET pair == pairs[st.k]
         IN  hit_pass_loop(r, impossible, pairs,
                [k   |-> st.k + 1,
                 res |-> IF ~contains_state(st.res.table, pair.hand)
                         THEN HasPanicked(st.res)
                         ELSE IF StateAt(st.res.table, pair.hand).hit # F64(0)
                         THEN st.res
                         ELSE hit_card_loop(r, impossible, pair,
                                [card |-> 1, res |-> st.res])])

-----------------------------------------------------------------------------
(* Bounds and inputs of the CardCount specifications *)

\* Rule.number_of_decks of the typical rule
NumberOfDecks == 8

\* number of mutations applied to cc1 in one run
MaxOps == 2

\* per-rank limit of a count vector that is legal for n decks
LegalLimit(n, card_value) == IF card_value = 10 THEN 16 * n ELSE 4 * n

LegalCounts(n, counts) ==
    \A i \in CardValues : counts[i] >= 0 /\ counts[i] <= LegalLimit(n, i)

\* count vectors the runs start from: the vectors of
\* tests::test_card_count_add_sub_assign, an empty hand, a full shoe, and two
\* vectors within the bounds of 7 and of 8 decks
SeedPairs ==
    { <<ZeroCounts, <<1, 2, 3, 0, 0, 0, 0, 0, 5, 6>> >>,
      << <<10, 10, 10, 0, 6, 0, 0, 0, 20, 20>>, <<1, 2, 3, 0, 0, 0, 0, 0, 5, 6>> >>,
      << <<32, 32, 32, 32, 32, 32, 32, 32, 32, 127>>, <<0, 0, 0, 0, 1, 0, 0, 0, 0, 1>> >>,
      << <<26, 0, 16, 11, 0, 4, 9, 19, 0, 44>>, <<0, 9, 0, 0, 11, 0, 0, 0, 22, 0>> >> }

NoIndex == [hand0 |-> <<>>, mul0 |-> 0, hand1 |-> <<>>, hash_value |-> <<>>]

Undecided ==
    [find_win_lose_odds |-> "undecided", dealer_gets_cards |-> "undecided",
     dealer_plays |-> "undecided"]

\* the parts of the state a specification does not use stay at these values
DealerIdle ==
    /\ dealer_extra_hand = CardCountNew(ZeroCounts)
    /\ must_stand = Undecided

NoSolution == [ex_stand_hit |-> <<>>, ex_double |-> NegInf, ex_split |-> NegInf]

DecisionIdle ==
    /\ solution_small = NoSolution
    /\ current_hand = CardCountNew(ZeroCounts)
    /\ decision = "none"

NoWeights == [combinations |-> 0, sum |-> F64(0)]

BettingIdle ==
    /\ shoe = CardCountNew(ZeroCounts)
    /\ weights = NoWeights

OddsIdle ==
    /\ player_sum = 0
    /\ original_shoe = CardCountNew(ZeroCounts)
    /\ odds = NewOdds

EngineIdle ==
    /\ number_of_threads = 0
    /\ initial_shoe = CardCountNew(ZeroCounts)
    /\ initial_hand = CardCountNew(ZeroCounts)
    /\ one_thread = NewTable
    /\ ex_stand_hit = <<>>
    /\ valid_pairs = <<>>
    /\ dispatched_hands = <<>>
    /\ threads = <<>>
    /\ pc = "idle"
    /\ main_next = 0
    /\ joined = 0
    /\ stand_writers = <<>>
    /\ inserted_keys = {}

NoRead == [panicked |-> FALSE, value |-> 0]

ArrayIdle ==
    /\ sa = <<>>
    /\ sa_handle = CardCountNew(ZeroCounts)
    /\ sa_model = <<>>
    /\ sa_read = NoRead
    /\ sa_ops = 0

\* ExsOtherDecisions::default(), and no answer yet
DefaultSlot == [dealer_up_card |-> 0, hand_cards |-> <<0, 0>>]

DefaultSlots == [d \in 1..10 |-> [idx55 \in 0..54 |-> DefaultSlot]]

NoAnswer == [hand |-> <<0, 0>>, dealer_up_card |-> 0, other |-> DefaultSlot]

TableIdle ==
    /\ exs_other_decisions = DefaultSlots
    /\ sol = NoAnswer

NoSituation ==
    [args |-> <<0, 0, 0>>, panicked |-> FALSE, hand_cards |-> <<0, 0>>,
     dealer_up_card |-> 0]

SituationIdle ==
    /\ initial_situation = NoSituation

NoShoe ==
    [number_of_decks |-> 0, cut_card_index |-> 0, cards |-> <<>>,
     card_count |-> CardCountNew(ZeroCounts), current_index |-> 0]

NoShoeCall == [op |-> "new", firsts |-> <<>>, some |-> FALSE, card |-> 0,
               panicked |-> FALSE]

ShoeIdle ==
    /\ shoe_obj = NoShoe
    /\ dealt = <<>>
    /\ shoe_call = NoShoeCall
    /\ shuffles = 0

NoSimulator == [current_game_phase |-> "none"]

NoCall == [op |-> "new", args |-> <<>>, result |-> "Ok", in_phase |-> TRUE]

NoAuto == [pc |-> "idle", main_bet |-> 0, splits_left |-> 0, events |-> <<>>]

SimulatorIdle ==
    /\ simulator = NoSimulator
    /\ last_call = NoCall
    /\ rounds = 0
    /\ settled = 0
    /\ peeked_natural = FALSE
    /\ auto = NoAuto

NoSolveCall ==
    [op |-> "none", hand_cards |-> <<0, 0>>, status |-> "none",
     third_card |-> 0, found |-> {}]

SolveIdle ==
    /\ solve_shoe = CardCountNew(ZeroCounts)
    /\ solve_table = <<>>
    /\ solve_fresh = <<>>
    /\ solve_call = NoSolveCall

NoWalk ==
    [kind |-> "none", overflow_checks |-> FALSE,
     shoe |-> CardCountNew(ZeroCounts), hand |-> CardCountNew(ZeroCounts)]

NoStep == [op |-> "none", card |-> 0, count_before |-> 0]

WalkIdle ==
    /\ walk = NoWalk
    /\ work_shoe = CardCountNew(ZeroCounts)
    /\ work_hand = CardCountNew(ZeroCounts)
    /\ frames = <<>>
    /\ seen = {}
    /\ last_step = NoStep

PlayIdle ==
    /\ play_shoe = CardCountNew(ZeroCounts)
    /\ play_odd = <<>>

OneIdle ==
    /\ one_hand = [hand_cards |-> CardCountNew(ZeroCounts),
                   dealer_odds |-> [i \in 1..6 |-> <<0, 1>>]]
    /\ one_ex = <<>>

FinalIdle ==
    /\ SolveIdle
    /\ WalkIdle
    /\ PlayIdle
    /\ OneIdle

LaterIdle ==
    /\ ArrayIdle
    /\ TableIdle
    /\ SituationIdle
    /\ ShoeIdle
    /\ SimulatorIdle


notCard == <<rule, dealer_up_card, dealerVars, oddsVars, decisionVars,
             bettingVars, engineVars,
    laterVars, finalVars>>
notDealer == <<rule, dealer_up_card, cardVars, oddsVars, decisionVars,
               bettingVars, engineVars,
    laterVars, finalVars>>
notOdds == <<rule, dealer_up_card, cardVars, dealerVars, decisionVars,
             bettingVars, engineVars,
    laterVars, finalVars>>
notDecision == <<rule, dealer_up_card, cardVars, dealerVars, oddsVars,
                 bettingVars, engineVars,
    laterVars, finalVars>>
notBetting == <<rule, dealer_up_card, cardVars, dealerVars, oddsVars,
                decisionVars, engineVars,
    laterVars, finalVars>>
notEngine == <<rule, dealer_up_card, cardVars, dealerVars, oddsVars,
               decisionVars, bettingVars,
    laterVars, finalVars>>

CardIdle ==
    /\ cc1 = CardCountNew(ZeroCounts)
    /\ cc2 = CardCountNew(ZeroCounts)
    /\ trail = <<>>
    /\ index_a = NoIndex
    /\ index_b = NoIndex

\* the calculation specifications at rest
CoreIdle ==
    /\ rule = get_typical_rule
    /\ dealer_up_card = 0
    /\ CardIdle
    /\ DealerIdle
    /\ OddsIdle
    /\ DecisionIdle
    /\ BettingIdle
    /\ EngineIdle

notArray == <<coreVars, tableVars, situationVars, shoeVars, simVars, finalVars>>
notSim == <<coreVars, arrayVars, tableVars, situationVars, shoeVars, finalVars>>
notShoe == <<coreVars, arrayVars, tableVars, situationVars, simVars, finalVars>>
notSituation == <<coreVars, arrayVars, tableVars, shoeVars, simVars, finalVars>>
notTable == <<coreVars, arrayVars, situationVars, shoeVars, simVars, finalVars>>

notSolve == <<coreVars, laterVars, walkVars, playVars, oneVars>>
notWalk == <<coreVars, laterVars, solveVars, playVars, oneVars>>
notPlay == <<coreVars, laterVars, solveVars, walkVars, oneVars>>
notOne == <<coreVars, laterVars, solveVars, walkVars, playVars>>

InitCard ==
    /\ \E pair \in SeedPairs :
          /\ cc1 = CardCountNew(pair[1])
          /\ cc2 = CardCountNew(pair[2])
    /\ trail = <<>>
    /\ index_a = NoIndex
    /\ index_b = NoIndex
    /\ rule = get_typical_rule
    /\ dealer_up_card = 0
    /\ DealerIdle
    /\ OddsIdle
    /\ DecisionIdle
    /\ BettingIdle
    /\ EngineIdle
    /\ LaterIdle
    /\ FinalIdle

Step(op, card_value) == [op |-> op, card |-> card_value, before |-> cc1]

AddCard(card_value) ==
    /\ Len(trail) < MaxOps
    /\ cc1.counts[card_value] < LegalLimit(NumberOfDecks, card_value)
    /\ cc1' = add_card(cc1, card_value)
    /\ trail' = Append(trail, Step("add_card", card_value))
    /\ UNCHANGED <<cc2, index_a, index_b, notCard>>

RemoveCard(card_value) ==
    /\ Len(trail) < MaxOps
    /\ cc1.counts[card_value] > 0
    /\ cc1' = remove_card(cc1, card_value)
    /\ trail' = Append(trail, Step("remove_card", card_value))
    /\ UNCHANGED <<cc2, index_a, index_b, notCard>>

AddAssign ==
    /\ Len(trail) < MaxOps
    /\ \A i \in CardValues :
          cc1.counts[i] + cc2.counts[i] <= LegalLimit(NumberOfDecks, i)
    /\ cc1' = add_assign(cc1, cc2)
    /\ trail' = Append(trail, Step("add_assign", 0))
    /\ UNCHANGED <<cc2, index_a, index_b, notCard>>

SubAssign ==
    /\ Len(trail) < MaxOps
    /\ \A i \in CardValues : cc1.counts[i] >= cc2.counts[i]
    /\ cc1' = sub_assign(cc1, cc2)
    /\ trail' = Append(trail, Step("sub_assign", 0))
    /\ UNCHANGED <<cc2, index_a, index_b, notCard>>

NextCard ==
    \/ \E card_value \in CardValues : AddCard(card_value)
    \/ \E card_value \in CardValues : RemoveCard(card_value)
    \/ AddAssign
    \/ SubAssign

SpecCard == InitCard /\ [][NextCard]_vars

\* ---- paired indices built from the two CardCount values
MakeIndex(hand0, mul0, hand1) ==
    [hand0      |-> hand0.hash_value,
     mul0       |-> mul0,
     hand1      |-> hand1.hash_value,
     hash_value |-> DoubleCardCountIndexNew(hand0, mul0, hand1).hash_value]

NewIndexA(mul0) ==
    /\ index_a' = MakeIndex(cc1, mul0, cc2)
    /\ UNCHANGED <<cc1, cc2, trail, index_b, notCard>>

NewIndexB(mul0, swap) ==
    /\ index_b' = IF swap THEN MakeIndex(cc2, mul0, cc1)
                  ELSE MakeIndex(cc1, mul0, cc2)
    /\ UNCHANGED <<cc1, cc2, trail, index_a, notCard>>

\* the first hand takes or gives back a card between two index computations
IndexHandCard(card_value) ==
    /\ Len(trail) < MaxOps
    /\ cc1.counts[card_value] < LegalLimit(NumberOfDecks, card_value)
    /\ cc1' = add_card(cc1, card_value)
    /\ trail' = Append(trail, [op |-> "add_card", card |-> card_value,
                               before |-> cc1.total])
    /\ UNCHANGED <<cc2, index_a, index_b, notCard>>

NextIndex ==
    \/ \E mul0 \in HandState : NewIndexA(mul0)
    \/ \E mul0 \in HandState, swap \in BOOLEAN : NewIndexB(mul0, swap)
    \/ \E card_value \in {1, 10} : IndexHandCard(card_value)

SpecIndex == InitCard /\ [][NextIndex]_vars

-----------------------------------------------------------------------------
(* The dealer's turn, decided by the three implementations on the same cards *)

\* the dealer holds at most this many cards
MaxDealerCards == 4

\* the dealer's whole hand, as DealerPlay and the simulator keep it
dealer_hand == add_card(dealer_extra_hand, dealer_up_card)

Verdict(stands) == IF stands THEN "stand" ELSE "hit"

InitDealer ==
    /\ CardIdle
    /\ OddsIdle
    /\ DecisionIdle
    /\ BettingIdle
    /\ EngineIdle
    /\ LaterIdle
    /\ FinalIdle
    /\ \E h17 \in BOOLEAN :
          rule = [get_typical_rule EXCEPT !.dealer_hit_on_soft17 = h17]
    /\ dealer_up_card \in CardValues
    /\ dealer_extra_hand = CardCountNew(ZeroCounts)
    /\ must_stand = Undecided

FindWinLoseOddsDecides ==
    /\ must_stand.find_win_lose_odds = "undecided"
    /\ must_stand' = [must_stand EXCEPT !.find_win_lose_odds =
            Verdict(find_win_lose_odds_must_stand(rule, dealer_up_card,
                                                  dealer_extra_hand))]
    /\ UNCHANGED <<dealer_extra_hand, notDealer>>

DealerGetsCardsDecides ==
    /\ must_stand.dealer_gets_cards = "undecided"
    /\ must_stand' = [must_stand EXCEPT !.dealer_gets_cards =
            Verdict(dealer_gets_cards_must_stand(rule, dealer_hand))]
    /\ UNCHANGED <<dealer_extra_hand, notDealer>>

DealerPlaysDecides ==
    /\ must_stand.dealer_plays = "undecided"
    /\ must_stand' = [must_stand EXCEPT !.dealer_plays =
            Verdict(dealer_plays_must_stand(rule, dealer_hand))]
    /\ UNCHANGED <<dealer_extra_hand, notDealer>>

\* a card goes to the dealer once some implementation makes her draw
DealerReceivesCard(card_value) ==
    /\ \A impl \in DOMAIN must_stand : must_stand[impl] # "undecided"
    /\ \E impl \in DOMAIN must_stand : must_stand[impl] = "hit"
    /\ get_total(dealer_hand) < MaxDealerCards
    /\ dealer_extra_hand' = add_card(dealer_extra_hand, card_value)
    /\ must_stand' = Undecided
    /\ UNCHANGED notDealer

NextDealer ==
    \/ FindWinLoseOddsDecides
    \/ DealerGetsCardsDecides
    \/ DealerPlaysDecides
    \/ \E card_value \in CardValues : DealerReceivesCard(card_value)

SpecDealer == InitDealer /\ [][NextDealer]_vars

\* the drawing rule as stated: stop on a hard total of 17..21, on a soft total
\* of 18..21, and on a soft 17 unless the dealer hits soft 17
StatedStop(r, hand) ==
    LET hard     == get_sum(hand)
        has_soft == hand.counts[1] > 0 /\ hard + 10 <= 21
        soft     == hard + 10
    IN  \/ hard >= 17 /\ hard <= 21
        \/ has_soft /\ soft >= 18 /\ soft <= 21
        \/ has_soft /\ soft = 17 /\ ~r.dealer_hit_on_soft17

\* C4: on every dealer hand that is not bust, each of the three
\* implementations stops exactly when the stated rule says so.
C4_DealerRuleIdentical ==
    ~bust(dealer_hand) =>
        \A impl \in DOMAIN must_stand :
            must_stand[impl] # "undecided" =>
                (must_stand[impl] = "stand" <=> StatedStop(rule, dealer_hand))

\* the hard 17 with an Ace on which the implementations part
C4_HardSeventeenWithAce ==
    /\ rule.dealer_hit_on_soft17
    /\ get_sum(dealer_hand) = 17 /\ dealer_hand.counts[1] > 0
    /\ must_stand.find_win_lose_odds = "stand"
    /\ must_stand.dealer_plays = "hit"
    /\ must_stand.dealer_gets_cards = "hit"

-----------------------------------------------------------------------------
(* The dealer's odds table for one standing player *)

\* shoes before the hole card is revealed: the shoe of
\* tests::test_find_win_lose_cases_count, two larger ones, and one that runs
\* out while the dealer must draw
OddsShoes ==
    { <<0, 0, 1, 0, 0, 0, 1, 0, 0, 1>>, <<1, 0, 0, 0, 1, 1, 0, 0, 0, 3>>,
      <<1, 1, 0, 0, 0, 1, 0, 0, 0, 2>>, <<0, 1, 0, 0, 0, 0, 0, 0, 0, 0>> }

OddsUpCards == {1, 6, 10}
OddsPlayerSums == {12, 17, 18, 20, 21}

InitOdds ==
    /\ CardIdle
    /\ DealerIdle
    /\ DecisionIdle
    /\ BettingIdle
    /\ EngineIdle
    /\ LaterIdle
    /\ FinalIdle
    /\ \E peek \in PeekPolicy, h17 \in BOOLEAN :
          rule = [get_typical_rule EXCEPT !.peek_policy = peek,
                                          !.dealer_hit_on_soft17 = h17]
    /\ dealer_up_card \in OddsUpCards
    /\ player_sum \in OddsPlayerSums
    /\ \E counts \in OddsShoes : original_shoe = CardCountNew(counts)
    /\ odds = NewOdds

\* the call made by calculate_stand_odds for a hand that is not a natural
FindWinLoseOdds ==
    /\ odds = NewOdds
    /\ odds' = memoization_find_win_lose_odds(rule, player_sum, dealer_up_card,
                    original_shoe, CardCountNew(ZeroCounts), NewOdds)
    /\ UNCHANGED <<player_sum, original_shoe, notOdds>>

NextOdds == FindWinLoseOdds

SpecOdds == InitOdds /\ [][NextOdds]_vars

OddsTotal(o) == FAdd(FAdd(o.win, o.push), o.lose)

\* C5: when the shoe did not run out while the dealer had to draw, every
\* dealer state stored in the odds table has win + push + lose = 1.
C5_OddsSumToOne ==
    (odds # NewOdds /\ ~odds.panicked) =>
        \A key \in DOMAIN odds.table : OddsTotal(odds.table[key]) = F64(1)

\* a table of several dealer states whose root mixes wins, pushes and losses
C5_Witness ==
    /\ odds # NewOdds /\ ~odds.panicked
    /\ Cardinality(DOMAIN odds.table) >= 5
    /\ LET root == StateAt(odds.table, CardCountNew(ZeroCounts))
       IN  root.win[1] > 0 /\ root.push[1] > 0 /\ root.lose[1] > 0

\* the shoe ran out while the dealer had to draw
C5_ShoeRanOut == odds # NewOdds /\ odds.panicked

-----------------------------------------------------------------------------
(* The best-decision query on one hand *)

\* hands asked about: two cards, a pair, three cards, a bust hand and a
\* hand of charlie_number cards
DecisionHands ==
    { <<0, 0, 0, 0, 0, 1, 0, 0, 0, 1>>, <<0, 0, 0, 0, 0, 0, 0, 2, 0, 0>>,
      <<0, 0, 0, 0, 2, 1, 0, 0, 0, 0>>, <<0, 0, 0, 0, 0, 1, 0, 0, 0, 2>>,
      <<2, 2, 2, 0, 0, 0, 0, 0, 0, 0>> }

\* expectations the tables hold in these runs
ExValues == {NegInf, <<-1, 1>>, <<-1, 2>>, <<0, 1>>, <<1, 2>>}
SplitValues == {NegInf, <<-1, 2>>, <<1, 2>>}

InitDecision ==
    /\ CardIdle
    /\ dealer_up_card = 0
    /\ DealerIdle
    /\ OddsIdle
    /\ BettingIdle
    /\ EngineIdle
    /\ LaterIdle
    /\ FinalIdle
    /\ \E surrender \in BOOLEAN :
          rule = [get_typical_rule EXCEPT !.allow_late_surrender = surrender]
    /\ \E counts \in DecisionHands : current_hand = CardCountNew(counts)
    /\ \E stand \in ExValues, hit \in ExValues,
          ex_double \in ExValues, ex_split \in SplitValues :
          solution_small =
            [ex_stand_hit |-> StatePut(<<>>, current_hand,
                                       [hit |-> hit, stand |-> stand]),
             ex_double    |-> ex_double,
             ex_split     |-> ex_split]
    /\ decision = "none"

MakeDecision ==
    /\ decision = "none"
    /\ decision' = make_decision(solution_small, rule, current_hand)
    /\ UNCHANGED <<solution_small, current_hand, notDecision>>

NextDecision == MakeDecision

SpecDecision == InitDecision /\ [][NextDecision]_vars

\* the actions open to the player on current_hand and what each is worth
AllowedActions ==
    {"Stand", "Hit"}
        \cup (IF rule.allow_late_surrender THEN {"Surrender"} ELSE {})
        \cup (IF get_total(current_hand) = 2 THEN {"Double", "Split"} ELSE {})

ActionValue(action) ==
    CASE action = "Stand"     -> StateAt(solution_small.ex_stand_hit, current_hand).stand
      [] action = "Hit"       -> StateAt(solution_small.ex_stand_hit, current_hand).hit
      [] action = "Double"    -> solution_small.ex_double
      [] action = "Split"     -> solution_small.ex_split
      [] action = "Surrender" -> <<-1, 2>>

IsMaximal(action) ==
    /\ action \in AllowedActions
    /\ \A other \in AllowedActions :
          ~FLess(ActionValue(action), ActionValue(other))

\* the first action of `order` that is allowed and of maximal expectation
FirstMaximal(order) ==
    order[CHOOSE i \in 1..Len(order) :
            /\ IsMaximal(order[i])
            /\ \A j \in 1..(i-1) : ~IsMaximal(order[j])]

Playable ==
    /\ ~bust(current_hand)
    /\ get_total(current_hand) < rule.charlie_number
    /\ \E action \in AllowedActions : ActionValue(action) # NegInf

-----------------------------------------------------------------------------
(* The betting phase: calculate_solution_without_initial_situation *)

\* the innermost loop, for second_hand_card in 1..=first_hand_card;
\* st.shoe is initial_situation.shoe, st.weights the p given so far
RECURSIVE second_hand_card_loop(_, _, _, _)
second_hand_card_loop(total_combs, first_hand_card, combs1, st) ==
    IF st.card > first_hand_card THEN st
    ELSE LET second_hand_card == st.card
             combs == combs1 * st.shoe.counts[second_hand_card]
                        * (IF second_hand_card # first_hand_card THEN 2 ELSE 1)
             removed == remove_card(st.shoe, second_hand_card)
             p == Frac(combs, total_combs)
         IN  second_hand_card_loop(total_combs, first_hand_card, combs1,
                [card    |-> st.card + 1,
                 shoe    |-> add_card(removed, second_hand_card),
                 weights |-> [combinations |-> st.weights.combinations + 1,
                              sum          |-> FAdd(st.weights.sum, p)]])

\* for first_hand_card in 1..=10
RECURSIVE first_hand_card_loop(_, _, _)
first_hand_card_loop(total_combs, combs0, st) ==
    IF st.card > 10 THEN st
    ELSE LET first_hand_card == st.card
             combs == combs0 * st.shoe.counts[first_hand_card]
             inner == second_hand_card_loop(total_combs, first_hand_card, combs,
                        [card    |-> 1,
                         shoe    |-> remove_card(st.shoe, first_hand_card),
                         weights |-> st.weights])
         IN  first_hand_card_loop(total_combs, combs0,
                [card    |-> st.card + 1,
                 shoe    |-> add_card(inner.shoe, first_hand_card),
                 weights |-> inner.weights])

\* for dealer_up_card in 1..=10
RECURSIVE dealer_up_card_loop(_, _)
dealer_up_card_loop(total_combs, st) ==
    IF st.card > 10 THEN st
    ELSE LET up_card == st.card
             combs == st.shoe.counts[up_card]
             inner == first_hand_card_loop(total_combs, combs,
                        [card    |-> 1,
                         shoe    |-> remove_card(st.shoe, up_card),
                         weights |-> st.weights])
         IN  dealer_up_card_loop(total_combs,
                [card    |-> st.card + 1,
                 shoe    |-> add_card(inner.shoe, up_card),
                 weights |-> inner.weights])

\* calculate_solution_without_initial_situation: the weights of its
\* combinations for the shoe it is given
calculate_solution_without_initial_situation(r, given_shoe) ==
    LET cards == r.number_of_decks * 52
        total_combs == cards * (cards - 1) * (cards - 2)
    IN  dealer_up_card_loop(total_combs,
            [card |-> 1, shoe |-> given_shoe, weights |-> NoWeights]).weights

\* decks in the rule, and cards dealt from the shoe before the bet
MaxDecks == 2
MaxDealt == 2

InitBetting ==
    /\ CardIdle
    /\ dealer_up_card = 0
    /\ DealerIdle
    /\ OddsIdle
    /\ DecisionIdle
    /\ EngineIdle
    /\ LaterIdle
    /\ FinalIdle
    /\ \E n \in 1..MaxDecks :
          /\ rule = [get_typical_rule EXCEPT !.number_of_decks = n]
          /\ shoe = with_number_of_decks(n)
    /\ weights = NoWeights

\* the simulator deals a card of the earlier round
DealCard(card_value) ==
    /\ weights = NoWeights
    /\ get_total(shoe) + MaxDealt > rule.number_of_decks * 52
    /\ shoe.counts[card_value] > 0
    /\ shoe' = remove_card(shoe, card_value)
    /\ UNCHANGED <<weights, notBetting>>

\* DpStrategySinglePlayer::calculate_expectation_before_bet on the shoe as
\* it is now
CalculateExpectationBeforeBet ==
    /\ weights = NoWeights
    /\ weights' = calculate_solution_without_initial_situation(rule, shoe)
    /\ UNCHANGED <<shoe, notBetting>>

NextBetting ==
    \/ \E card_value \in CardValues : DealCard(card_value)
    \/ CalculateExpectationBeforeBet

SpecBetting == InitBetting /\ [][NextBetting]_vars

\* C6: the weights given to the enumerated combinations sum to exactly 1
\* for the shoe that was passed in.
C6_WeightsSumToOne ==
    weights # NoWeights => weights.sum = F64(1)

\* the weights were computed for a shoe one card short of the full shoe
C6_PartlyDealtShoe ==
    /\ weights # NoWeights
    /\ weights.combinations = 550
    /\ get_total(shoe) = rule.number_of_decks * 52 - 1
    /\ weights.sum # F64(1)

-----------------------------------------------------------------------------
(* calculate_expectations on the same initial situation, with one thread and *)
(* with number_of_threads threads                                           *)

\* the largest number_of_threads
MaxThreads == 3

\* initial situations: a natural with only tens left; sixteen against a ten
\* with a shoe that lasts, with one that runs out under the dealer after a
\* hit, and with one that runs out at once; and a pair of twos with seven
\* cards left
EngineSituations ==
    { [hand |-> <<1, 10>>, up |-> 10, shoe |-> <<0, 0, 0, 0, 0, 0, 0, 0, 0, 4>>],
      [hand |-> <<6, 10>>, up |-> 10, shoe |-> <<0, 0, 0, 0, 2, 0, 0, 0, 0, 3>>],
      [hand |-> <<6, 10>>, up |-> 10, shoe |-> <<0, 0, 0, 0, 2, 0, 0, 0, 0, 0>>],
      [hand |-> <<6, 10>>, up |-> 10, shoe |-> <<0, 0, 0, 0, 1, 0, 0, 0, 0, 0>>],
      [hand |-> <<2, 2>>,  up |-> 10, shoe |-> <<0, 2, 0, 0, 0, 0, 0, 0, 1, 4>>],
      \* naturals against a six, against an Ace with and without tens left,
      \* and against a ten with an Ace left
      [hand |-> <<1, 10>>, up |-> 6,  shoe |-> <<1, 0, 0, 0, 0, 0, 0, 0, 0, 3>>],
      [hand |-> <<1, 10>>, up |-> 1,  shoe |-> <<0, 0, 0, 0, 0, 0, 0, 0, 2, 2>>],
      [hand |-> <<1, 10>>, up |-> 1,  shoe |-> <<0, 0, 0, 0, 0, 0, 0, 0, 3, 0>>],
      [hand |-> <<1, 10>>, up |-> 10, shoe |-> <<1, 0, 0, 0, 0, 0, 0, 0, 0, 3>>] }

InitEngine ==
    /\ LaterIdle
    /\ FinalIdle
    /\ CardIdle
    /\ DealerIdle
    /\ OddsIdle
    /\ DecisionIdle
    /\ BettingIdle
    /\ \E surrender \in BOOLEAN, peek \in PeekPolicy :
          rule = [get_typical_rule EXCEPT !.allow_late_surrender = surrender,
                                          !.peek_policy = peek]
    /\ \E situation \in EngineSituations :
          /\ dealer_up_card = situation.up
          /\ initial_shoe = CardCountNew(situation.shoe)
          /\ initial_hand = add_card(add_card(with_number_of_decks(0),
                                              situation.hand[1]),
                                     situation.hand[2])
    /\ number_of_threads \in 2..MaxThreads
    /\ one_thread = NewTable
    /\ ex_stand_hit = <<>>
    /\ valid_pairs = <<>>
    /\ dispatched_hands = <<>>
    /\ threads = <<>>
    /\ pc = "one_thread"
    /\ main_next = 0
    /\ joined = 0
    /\ stand_writers = <<>>
    /\ inserted_keys = {}

impossible_dealer_hole_card ==
    get_impossible_dealer_hole_card(rule, dealer_up_card)

\* calculate_expectations with number_of_threads <= 1
CalculateWithOneThread ==
    /\ pc = "one_thread"
    /\ one_thread' = memoization_calculate_stand_hit_expectation(rule,
                        dealer_up_card, impossible_dealer_hole_card,
                        initial_shoe, initial_hand, NewTable)
    /\ pc' = "n_threads"
    /\ UNCHANGED <<number_of_threads, initial_shoe, initial_hand, ex_stand_hit,
                   valid_pairs, dispatched_hands, threads, main_next, joined,
                   stand_writers, inserted_keys, notEngine>>

\* a hand the obvious cases do not settle: its stand odds are computed
NeedsStandOdds(hand) ==
    /\ ~bust(hand)
    /\ get_total(hand) # rule.charlie_number
    /\ ~(get_actual_sum(hand) <= 11 /\ get_total(hand) # 3)

RECURSIVE EmptyPartitions(_)
EmptyPartitions(n) == IF n = 0 THEN <<>> ELSE Append(EmptyPartitions(n - 1), <<>>)

\* multithreading_calculate_stand_hit_expectation up to the first spawn:
\* gather the states, write the obvious cases, dispatch the others
GatherAndDispatch ==
    /\ pc = "n_threads"
    /\ LET gathered == gather_hand_count_states(initial_hand, initial_shoe,
                            rule.charlie_number, ex_stand_hit)
           done == dispatch_loop(rule, number_of_threads, InOrder(gathered, 1),
                        [k |-> 1, table |-> ex_stand_hit,
                         dispatched |-> EmptyPartitions(number_of_threads),
                         state_count |-> 0])
       IN  /\ valid_pairs' = gathered
           /\ ex_stand_hit' = done.table
           /\ dispatched_hands' = done.dispatched
           /\ stand_writers' =
                [key \in UNION { { done.dispatched[t][i].hand.hash_value :
                                      i \in 1..Len(done.dispatched[t]) } :
                                  t \in 1..number_of_threads } |-> {}]
    /\ pc' = "spawn"
    /\ UNCHANGED <<number_of_threads, initial_shoe, initial_hand, one_thread,
                   threads, main_next, joined, inserted_keys, notEngine>>

\* a spawn that hands out the last partition without taking it off the list
SpawnWithoutPop ==
    /\ pc = "spawn"
    /\ threads' = Append(threads,
            [pairs  |-> dispatched_hands[Len(dispatched_hands)],
             next   |-> 1,
             status |-> "running"])
    /\ pc' = IF Len(threads) + 1 = number_of_threads - 1 THEN "stand" ELSE "spawn"
    /\ main_next' = 1
    /\ UNCHANGED <<number_of_threads, initial_shoe, initial_hand, one_thread,
                   ex_stand_hit, valid_pairs, dispatched_hands, joined,
                   stand_writers, inserted_keys, notEngine>>

\* `let pairs_for_thread = dispatched_hands.pop().unwrap();` and
\* std::thread::spawn, once per worker
Spawn ==
    /\ pc = "spawn"
    /\ threads' = Append(threads,
            [pairs  |-> dispatched_hands[Len(dispatched_hands)],
             next   |-> 1,
             status |-> "running"])
    /\ dispatched_hands' = SubSeq(dispatched_hands, 1, Len(dispatched_hands) - 1)
    /\ pc' = IF Len(threads) + 1 = number_of_threads - 1 THEN "stand" ELSE "spawn"
    /\ main_next' = 1
    /\ UNCHANGED <<number_of_threads, initial_shoe, initial_hand, one_thread,
                   ex_stand_hit, valid_pairs, joined, stand_writers,
                   inserted_keys, notEngine>>

\* the write of one stand value by thread `writer` (0 is the main thread)
WriteStand(writer, pair, stand_odds) ==
    /\ ex_stand_hit' = SetStand(ex_stand_hit, pair.hand,
                                 stand_expectation(rule, pair.hand, stand_odds))
    /\ inserted_keys' = inserted_keys
            \cup (IF contains_state(ex_stand_hit, pair.hand) THEN {}
                  ELSE {pair.hand.hash_value})
    /\ stand_writers' =
            [key \in DOMAIN stand_writers \cup {pair.hand.hash_value} |->
                IF key = pair.hand.hash_value
                THEN (IF key \in DOMAIN stand_writers
                      THEN stand_writers[key] ELSE {}) \cup {writer}
                ELSE stand_writers[key]]

\* one turn of the loop of worker t: the stand odds of its next pair and the
\* write of the stand value; a panic ends the thread
WorkerStep(t) ==
    /\ pc \in {"spawn", "stand", "join"}
    /\ t \in 1..Len(threads)
    /\ threads[t].status = "running"
    /\ IF threads[t].next > Len(threads[t].pairs)
       THEN /\ threads' = [threads EXCEPT ![t].status = "finished"]
            /\ UNCHANGED <<ex_stand_hit, stand_writers, inserted_keys>>
       ELSE LET pair == threads[t].pairs[threads[t].next]
                stand_odds == calculate_stand_odds(rule, pair.hand,
                                    dealer_up_card, pair.shoe)
            IN  IF stand_odds.panicked
                THEN /\ threads' = [threads EXCEPT ![t].status = "panicked"]
                     /\ UNCHANGED <<ex_stand_hit, stand_writers, inserted_keys>>
                ELSE /\ threads' = [threads EXCEPT ![t].next = @ + 1]
                     /\ WriteStand(t, pair, stand_odds)
    /\ UNCHANGED <<number_of_threads, initial_shoe, initial_hand, one_thread,
                   valid_pairs, dispatched_hands, pc, main_next, joined,
                   notEngine>>

\* one turn of `for pair in dispatched_hands.first().unwrap()` on the main
\* thread; a panic here ends the process
MainStep ==
    /\ pc = "stand"
    /\ IF main_next > Len(dispatched_hands[1])
       THEN /\ pc' = "join"
            /\ UNCHANGED <<ex_stand_hit, stand_writers, inserted_keys, main_next>>
       ELSE LET pair == dispatched_hands[1][main_next]
                stand_odds == calculate_stand_odds(rule, pair.hand,
                                    dealer_up_card, pair.shoe)
            IN  IF stand_odds.panicked
                THEN /\ pc' = "aborted"
                     /\ UNCHANGED <<ex_stand_hit, stand_writers, inserted_keys,
                                    main_next>>
                ELSE /\ pc' = "stand"
                     /\ main_next' = main_next + 1
                     /\ WriteStand(0, pair, stand_odds)
    /\ UNCHANGED <<number_of_threads, initial_shoe, initial_hand, one_thread,
                   valid_pairs, dispatched_hands, threads, joined, notEngine>>

\* `let _ = thread.join();` for the next worker: waits until the thread has
\* ended and drops its result
Join ==
    /\ pc = "join"
    /\ threads[joined + 1].status # "running"
    /\ joined' = joined + 1
    /\ pc' = IF joined + 1 = Len(threads) THEN "hit" ELSE "join"
    /\ UNCHANGED <<number_of_threads, initial_shoe, initial_hand, one_thread,
                   ex_stand_hit, valid_pairs, dispatched_hands, threads,
                   main_next, stand_writers, inserted_keys, notEngine>>

\* "Calculate expectation of Hit.", and the return to the caller
HitPass ==
    /\ pc = "hit"
    /\ LET res == hit_pass_loop(rule, impossible_dealer_hole_card,
                        hit_pass_order(valid_pairs),
                        [k |-> 1, res |-> [table |-> ex_stand_hit,
                                           panicked |-> FALSE]])
       IN  /\ ex_stand_hit' = res.table
           /\ pc' = IF res.panicked THEN "aborted" ELSE "done"
    /\ UNCHANGED <<number_of_threads, initial_shoe, initial_hand, one_thread,
                   valid_pairs, dispatched_hands, threads, main_next, joined,
                   stand_writers, inserted_keys, notEngine>>

Next ==
    \/ CalculateWithOneThread
    \/ GatherAndDispatch
    \/ Spawn
    \/ \E t \in 1..(MaxThreads - 1) : WorkerStep(t)
    \/ MainStep
    \/ Join
    \/ HitPass

Spec == InitEngine /\ [][Next]_vars

-----------------------------------------------------------------------------
(* Claims on the one-thread and N-thread runs *)

WorkerPanicked == \E t \in 1..Len(threads) : threads[t].status = "panicked"

\* both runs came to their end without a panic anywhere
BothRunsCompleted == pc = "done" /\ ~one_thread.panicked /\ ~WorkerPanicked

\* C1: for the same rule, up-card, shoe and two-card hand, the table of the
\* run with one thread and the table of the run with N > 1 threads hold the
\* same hand states, each with the same stand and the same hit value
C1_OneAndNThreadsSameTable ==
    BothRunsCompleted => ex_stand_hit = one_thread.table

\* both runs completed and the N-thread table holds a state the one-thread
\* table does not
C1_ExtraStates ==
    /\ BothRunsCompleted
    /\ DOMAIN ex_stand_hit # DOMAIN one_thread.table

\* the states both tables hold have the same stand and hit values
CommonStatesAgree ==
    BothRunsCompleted =>
        \A key \in DOMAIN ex_stand_hit \cap DOMAIN one_thread.table :
            ex_stand_hit[key] = one_thread.table[key]

\* the gathered pairs whose stand odds are computed, in dispatch order
NeedingPairs == SelectSeq(InOrder(valid_pairs, 1), LAMBDA pair : NeedsStandOdds(pair.hand))

\* partition p (from 0) of the round-robin dispatch: still on the list, or
\* popped for the worker spawned at that turn
PartitionOf(p) ==
    IF p + 1 <= Len(dispatched_hands) THEN dispatched_hands[p + 1]
    ELSE threads[number_of_threads - p].pairs

\* the thread that processes partition p: 0 is the main thread
OwnerOf(p) == IF p = 0 THEN 0 ELSE number_of_threads - p

InPartition(pair, p) ==
    \E i \in 1..Len(PartitionOf(p)) : PartitionOf(p)[i] = pair

\* C2: from the dispatch on, under every interleaving, no table entry is
\* written by two threads and no thread inserts a key: the k-th state that
\* needs stand odds is in round-robin partition k mod N and in no other, each
\* worker processes the one partition that was popped for it and writes only
\* its entries, and every such state has its table entry before the first
\* spawn
C2_StandPhasePartitioned ==
    pc \in {"spawn", "stand", "join", "hit", "done", "aborted"} =>
        /\ inserted_keys = {}
        /\ \A k \in 1..Len(NeedingPairs) :
              /\ contains_state(ex_stand_hit, NeedingPairs[k].hand)
              /\ NeedingPairs[k].hand.hash_value \in DOMAIN stand_writers
              /\ \A p \in 0..(number_of_threads - 1) :
                    InPartition(NeedingPairs[k], p)
                        <=> p = (k - 1) % number_of_threads
              /\ stand_writers[NeedingPairs[k].hand.hash_value]
                    \subseteq {OwnerOf((k - 1) % number_of_threads)}
        /\ \A k1, k2 \in 1..Len(NeedingPairs) :
              NeedingPairs[k1].hand.hash_value = NeedingPairs[k2].hand.hash_value
                  => k1 = k2
        /\ \A t \in 1..Len(threads) :
              threads[t].pairs = PartitionOf(number_of_threads - t)
        /\ \A key \in DOMAIN stand_writers :
              Cardinality(stand_writers[key]) <= 1

\* the main thread and two workers have each written a stand value while a
\* worker is still running
C2_Witness ==
    /\ pc = "stand"
    /\ number_of_threads = 3
    /\ \A writer \in 0..2 :
          \E key \in DOMAIN stand_writers : stand_writers[key] = {writer}
    /\ \E t \in 1..Len(threads) : threads[t].status = "running"

\* the dealer cannot hold a natural: her up card is neither Ace nor ten, or
\* the peek has ruled it out, or the shoe has no card that completes it
DealerNaturalImpossible ==
    \/ dealer_up_card \notin {1, 10}
    \/ rule.peek_policy = "UpAceOrTen"
    \/ rule.peek_policy = "UpAce" /\ dealer_up_card = 1
    \/ dealer_up_card = 10 /\ initial_shoe.counts[1] = 0
    \/ dealer_up_card = 1 /\ initial_shoe.counts[10] = 0

\* C13: for a two-card natural, when the dealer cannot hold a natural, the
\* stand value stored for the hand is payout_blackjack exactly, in the table
\* of the one-thread run and, once its stand value is written, in the table
\* of the N-thread run
C13_NaturalPaysBlackjack ==
    (is_natural(initial_hand) /\ DealerNaturalImpossible) =>
        /\ contains_state(one_thread.table, initial_hand) =>
              StateAt(one_thread.table, initial_hand).stand = rule.payout_blackjack
        /\ (/\ initial_hand.hash_value \in DOMAIN stand_writers
            /\ stand_writers[initial_hand.hash_value] # {}) =>
              StateAt(ex_stand_hit, initial_hand).stand = rule.payout_blackjack

\* both runs have stored the stand value of a natural against a ten, with no
\* peek and no Ace in the shoe
C13_Witness ==
    /\ is_natural(initial_hand)
    /\ dealer_up_card = 10
    /\ rule.peek_policy = "NoPeek"
    /\ initial_shoe.counts[1] = 0
    /\ pc = "done"
    /\ StateAt(one_thread.table, initial_hand).stand = <<3, 2>>
    /\ StateAt(ex_stand_hit, initial_hand).stand = <<3, 2>>

\* C3: when a worker panics during the stand computation the run aborts: the
\* hit pass has not run and the caller has no table while the stand value of
\* some dispatched state was never written
C3_WorkerPanicIsFatal ==
    pc = "done" => \A key \in DOMAIN stand_writers : stand_writers[key] # {}

\* a worker panicked, the run returned all the same, and the one-thread run
\* on the same input panicked
C3_PanicDropped ==
    /\ pc = "done"
    /\ WorkerPanicked
    /\ one_thread.panicked

-----------------------------------------------------------------------------
(* Claims on CardCount and DoubleCardCountIndex *)

\* C8: two CardCount values whose count vectors are legal for the configured
\* number of decks and differ never have the same key.
C8_LegalKeysInjective ==
    (/\ LegalCounts(NumberOfDecks, cc1.counts)
     /\ LegalCounts(NumberOfDecks, cc2.counts)
     /\ cc1.counts # cc2.counts)
        => ~CardCountEq(cc1, cc2)

\* C9: after new and after every add_card, remove_card, += and -= the stored
\* key, sum and total are those recomputed from the counts, and add_card
\* followed by remove_card of the same rank restores the whole value.
C9_IncrementalMatchesRecomputed ==
    /\ cc1.hash_value = horner_method(cc1.counts)
    /\ cc1.sum = SumAcc(cc1.counts, 10)
    /\ cc1.total = TotalAcc(cc1.counts, 10)
    /\ \A k \in 2..Len(trail) :
          (/\ trail[k-1].op = "add_card"
           /\ trail[k].op = "remove_card"
           /\ trail[k-1].card = trail[k].card)
             => (IF k = Len(trail) THEN cc1 ELSE trail[k+1].before)
                    = trail[k-1].before

C9_Witness ==
    /\ Len(trail) = 2
    /\ trail[1].op = "add_card"
    /\ trail[2].op = "remove_card"
    /\ trail[1].card = trail[2].card
    /\ trail[1].before.total > 0

\* bits 62..63 of a u128, and the value of its bits 64..127 and 0..61
TagBits(x) == x[4] \div 2^14
HighHalf(x) == <<x[5], x[6], x[7], x[8], 0, 0, 0, 0>>
LowKey(x) == <<x[1], x[2], x[3], x[4] % 2^14, 0, 0, 0, 0>>
Below2To62(x) == x[4] < 2^14 /\ \A i \in 5..8 : x[i] = 0

\* C10: every key is below 2^62, the tag sits in bits 62..63 and the key of
\* hand1 in bits 64..125, so two different triples (key of hand0, tag, key of
\* hand1) never give the same paired index.
C10_PairedIndexInjective ==
    /\ Below2To62(cc1.hash_value) /\ Below2To62(cc2.hash_value)
    /\ \A ix \in {index_a, index_b} :
          ix # NoIndex =>
             /\ LowKey(ix.hash_value) = ix.hand0
             /\ TagBits(ix.hash_value) = ix.mul0
             /\ HighHalf(ix.hash_value) = ix.hand1
    /\ (index_a # NoIndex /\ index_b # NoIndex
            /\ index_a.hash_value = index_b.hash_value)
          => index_a = index_b

C10_Witness ==
    /\ index_a # NoIndex /\ index_b # NoIndex
    /\ index_a.hand0 = index_b.hand0 /\ index_a.hand1 = index_b.hand1
    /\ index_a.mul0 = 3 /\ index_b.mul0 = 2
    /\ index_a.hand0[4] >= 2^13
    /\ index_a.hash_value # index_b.hash_value

-----------------------------------------------------------------------------
(* statearray.rs: SingleStateArray<i32> indexed by CardCount *)

\* number of calls made on the array and its index in one run
MaxArrayOps == 4

\* i32::default()
DefaultValue == 0

\* the values tests::test_state_array writes
ArrayValues == {666, 111}

\* count vectors the index is built from: a vector of tests::test_state_array
\* (raw_counts[3] = 2), the empty hand, and two vectors within the bounds of
\* 8 decks
ArraySeeds ==
    { <<1, 2, 3, 2, 0, 0, 0, 0, 5, 6>>,
      ZeroCounts,
      <<26, 0, 16, 11, 0, 4, 9, 19, 0, 44>>,
      <<0, 9, 0, 0, 11, 0, 0, 0, 22, 0>> }

\* the cards the index takes and gives back
ArrayCards == {3, 10}

InitArray ==
    /\ sa = <<>>
    /\ sa_handle \in { CardCountNew(counts) : counts \in ArraySeeds }
    /\ sa_model = <<>>
    /\ sa_read = NoRead
    /\ sa_ops = 0
    /\ CoreIdle
    /\ FinalIdle
    /\ TableIdle
    /\ SituationIdle
    /\ ShoeIdle
    /\ SimulatorIdle

\* the value recorded under a count vector, with the vector added
ModelPut(model, counts, value) ==
    [c \in DOMAIN model \cup {counts} |-> IF c = counts THEN value ELSE model[c]]

\* IndexMut for SingleStateArray: the entry is inserted with the default value
\* when the key is absent
index_mut(table, index) ==
    IF contains_state(table, index) THEN table
    ELSE StatePut(table, index, DefaultValue)

\* `CardCount::new(&counts)` for the index
ArrayNewIndex(counts) ==
    /\ sa_ops < MaxArrayOps
    /\ sa_handle' = CardCountNew(counts)
    /\ sa_ops' = sa_ops + 1
    /\ UNCHANGED <<sa, sa_model, sa_read, notArray>>

\* `cc.add_card(card_value)` on the index
ArrayIndexAddCard(card_value) ==
    /\ sa_ops < MaxArrayOps
    /\ sa_handle.counts[card_value] < LegalLimit(NumberOfDecks, card_value)
    /\ sa_handle' = add_card(sa_handle, card_value)
    /\ sa_ops' = sa_ops + 1
    /\ UNCHANGED <<sa, sa_model, sa_read, notArray>>

\* `cc.remove_card(card_value)` on the index
ArrayIndexRemoveCard(card_value) ==
    /\ sa_ops < MaxArrayOps
    /\ sa_handle.counts[card_value] > 0
    /\ sa_handle' = remove_card(sa_handle, card_value)
    /\ sa_ops' = sa_ops + 1
    /\ UNCHANGED <<sa, sa_model, sa_read, notArray>>

\* `sa[&cc] = value`
ArrayAssign(value) ==
    /\ sa_ops < MaxArrayOps
    /\ sa' = StatePut(index_mut(sa, sa_handle), sa_handle, value)
    /\ sa_model' = ModelPut(sa_model, sa_handle.counts, value)
    /\ sa_ops' = sa_ops + 1
    /\ UNCHANGED <<sa_handle, sa_read, notArray>>

\* `&mut sa[&cc]` with nothing stored through the handle
ArrayIndexMut ==
    /\ sa_ops < MaxArrayOps
    /\ sa' = index_mut(sa, sa_handle)
    /\ sa_model' = IF sa_handle.counts \in DOMAIN sa_model THEN sa_model
                   ELSE ModelPut(sa_model, sa_handle.counts, DefaultValue)
    /\ sa_ops' = sa_ops + 1
    /\ UNCHANGED <<sa_handle, sa_read, notArray>>

\* `sa[&cc]`: Index panics when the key is absent
ArrayIndex ==
    /\ sa_ops < MaxArrayOps
    /\ sa_read' = IF contains_state(sa, sa_handle)
                  THEN [panicked |-> FALSE, value |-> StateAt(sa, sa_handle)]
                  ELSE [panicked |-> TRUE, value |-> 0]
    /\ sa_ops' = sa_ops + 1
    /\ UNCHANGED <<sa, sa_handle, sa_model, notArray>>

\* `sa.clear()`
ArrayClear ==
    /\ sa_ops < MaxArrayOps
    /\ sa' = <<>>
    /\ sa_model' = <<>>
    /\ sa_ops' = sa_ops + 1
    /\ UNCHANGED <<sa_handle, sa_read, notArray>>

NextArray ==
    \/ \E counts \in ArraySeeds : ArrayNewIndex(counts)
    \/ \E card_value \in ArrayCards : ArrayIndexAddCard(card_value)
    \/ \E card_value \in ArrayCards : ArrayIndexRemoveCard(card_value)
    \/ \E value \in ArrayValues : ArrayAssign(value)
    \/ ArrayIndexMut
    \/ ArrayIndex
    \/ ArrayClear

SpecArray == InitArray /\ [][NextArray]_vars

\* the count vectors the run can name: the seeds, the index, and the vectors
\* mutably indexed since creation or the last clear()
ArrayStates == ArraySeeds \cup {sa_handle.counts} \cup DOMAIN sa_model

\* C11: contains_state(s) holds exactly when s was mutably indexed since
\* creation or the last clear(); a state that was mutably indexed holds the
\* value last written under it (the default if none was), whatever was done
\* under other states; and that value is read through a CardCount built from
\* the counts and through the index reached by add_card and remove_card
C11_ArrayFollowsStates ==
    /\ \A counts \in ArrayStates :
          contains_state(sa, CardCountNew(counts)) <=> counts \in DOMAIN sa_model
    /\ \A counts \in DOMAIN sa_model :
          StateAt(sa, CardCountNew(counts)) = sa_model[counts]
    /\ sa_handle.counts \in DOMAIN sa_model =>
          /\ contains_state(sa, sa_handle)
          /\ StateAt(sa, sa_handle) = sa_model[sa_handle.counts]

\* a second state was mutably indexed after a value was written under the
\* first, and the index has moved by add_card or remove_card since it was built
C11_Witness ==
    /\ Cardinality(DOMAIN sa_model) >= 2
    /\ \E counts \in DOMAIN sa_model : sa_model[counts] = 666
    /\ sa_handle.counts \notin ArraySeeds

\* two legal vectors of 8 decks were mutably indexed and the array holds one
\* entry
C11_TwoStatesOneEntry ==
    /\ Cardinality(DOMAIN sa_model) = 2
    /\ Cardinality(DOMAIN sa) = 1
    /\ \A counts \in DOMAIN sa_model : LegalCounts(NumberOfDecks, counts)


-----------------------------------------------------------------------------
(* calculation.rs: the 55 slots of SolutionForBettingPhase *)

\* get_prefix_sum: ret[i + 1] here is the code's ret[i]
RECURSIVE prefix_sum_loop(_)
prefix_sum_loop(st) ==
    IF st.i >= 10 THEN st.ret
    ELSE prefix_sum_loop([i   |-> st.i + 1,
                          ret |-> [st.ret EXCEPT ![st.i + 1] = st.ret[st.i] + st.i]])

get_prefix_sum == prefix_sum_loop([i |-> 1, ret |-> [k \in 1..10 |-> 0]])

PREFIX_SUM == get_prefix_sum

\* idx55 of calculate_solution_without_initial_situation
idx55_of(first_hand_card, second_hand_card) ==
    PREFIX_SUM[first_hand_card] + (second_hand_card - 1)

\* the loop `for second_hand_card in 1..=first_hand_card` with the store
\* `solution.exs_other_decisions[idx10][idx55] = ex_other`; ex_other is kept
\* as the initial situation it was computed for
RECURSIVE store_second_hand_card_loop(_, _, _)
store_second_hand_card_loop(d, first_hand_card, st) ==
    IF st.card > first_hand_card THEN st.slots
    ELSE store_second_hand_card_loop(d, first_hand_card,
            [card  |-> st.card + 1,
             slots |-> [st.slots EXCEPT ![d][idx55_of(first_hand_card, st.card)] =
                          [dealer_up_card |-> d,
                           hand_cards |-> <<first_hand_card, st.card>>]]])

\* the loop `for first_hand_card in 1..=10`
RECURSIVE store_first_hand_card_loop(_, _)
store_first_hand_card_loop(d, st) ==
    IF st.card > 10 THEN st.slots
    ELSE store_first_hand_card_loop(d,
            [card  |-> st.card + 1,
             slots |-> store_second_hand_card_loop(d, st.card,
                          [card |-> 1, slots |-> st.slots])])

\* the loop `for dealer_up_card in 1..=10`
RECURSIVE store_dealer_up_card_loop(_)
store_dealer_up_card_loop(st) ==
    IF st.card > 10 THEN st.slots
    ELSE store_dealer_up_card_loop(
            [card  |-> st.card + 1,
             slots |-> store_first_hand_card_loop(st.card,
                          [card |-> 1, slots |-> st.slots])])

\* a reader that takes the hand in the order it is given
get_solution_for_initial_situation_aux_unordered(slots, hand, d) ==
    slots[d][PREFIX_SUM[hand[1]] + (hand[2] - 1)]

\* get_solution_for_initial_situation_aux: the slot read for a hand and a
\* dealer up card
get_solution_for_initial_situation_aux(slots, hand, d) ==
    LET ordered == IF hand[1] < hand[2] THEN <<hand[2], hand[1]>> ELSE hand
    IN  slots[d][PREFIX_SUM[ordered[1]] + (ordered[2] - 1)]

InitTable ==
    /\ exs_other_decisions = DefaultSlots
    /\ sol = NoAnswer
    /\ CoreIdle
    /\ FinalIdle
    /\ ArrayIdle
    /\ SituationIdle
    /\ ShoeIdle
    /\ SimulatorIdle

\* calculate_solution_without_initial_situation, its stores into the slots
StoreSolution ==
    /\ exs_other_decisions = DefaultSlots
    /\ exs_other_decisions' =
            store_dealer_up_card_loop([card |-> 1, slots |-> exs_other_decisions])
    /\ UNCHANGED <<sol, notTable>>

\* get_solution_for_initial_situation on the stored solution; it changes
\* nothing of the solution, so one call per run shows every answer
GetSolutionForInitialSituation(hand, d) ==
    /\ exs_other_decisions # DefaultSlots
    /\ sol = NoAnswer
    /\ sol' = [hand |-> hand, dealer_up_card |-> d,
               other |-> get_solution_for_initial_situation_aux(
                             exs_other_decisions, hand, d)]
    /\ UNCHANGED <<exs_other_decisions, notTable>>

NextTable ==
    \/ StoreSolution
    \/ \E x \in CardValues, y \in CardValues, d \in CardValues :
          GetSolutionForInitialSituation(<<x, y>>, d)

SpecTable == InitTable /\ [][NextTable]_vars

\* the card pairs 10 >= a >= b >= 1
OrderedPairs == { pair \in CardValues \X CardValues : pair[1] >= pair[2] }

Max2(x, y) == IF x >= y THEN x ELSE y
Min2(x, y) == IF x <= y THEN x ELSE y

\* C12: PREFIX_SUM[a-1] + (b-1) over the pairs 10 >= a >= b >= 1 is a
\* bijection onto 0..54, and the answer for hand (x, y) and up card d is the
\* slot stored for the unordered pair {x, y} and d, in either order of x and y
C12_SlotIndexBijective ==
    /\ \A p, q \in OrderedPairs :
          idx55_of(p[1], p[2]) = idx55_of(q[1], q[2]) => p = q
    /\ { idx55_of(p[1], p[2]) : p \in OrderedPairs } = 0..54
    /\ sol # NoAnswer =>
          sol.other = [dealer_up_card |-> sol.dealer_up_card,
                       hand_cards |-> <<Max2(sol.hand[1], sol.hand[2]),
                                        Min2(sol.hand[1], sol.hand[2])>>]

\* an answer was given for a hand whose first card is the smaller one
C12_Witness ==
    /\ sol # NoAnswer
    /\ sol.hand[1] < sol.hand[2]
    /\ sol.other.hand_cards = <<sol.hand[2], sol.hand[1]>>


-----------------------------------------------------------------------------
(* lib.rs: InitialSituation::new *)

\* u8 arguments tried: the ends of the card range, its neighbours and the
\* largest u8
SituationBytes == {0, 1, 5, 10, 11, 255}

\* a constructor that does not look at the second hand card
InitialSituationNew_first_card_only(hand, up_card) ==
    IF up_card = 0 \/ up_card > 10 \/ hand[1] > 10
    THEN [args |-> <<hand[1], hand[2], up_card>>, panicked |-> TRUE,
          hand_cards |-> <<0, 0>>, dealer_up_card |-> 0]
    ELSE [args |-> <<hand[1], hand[2], up_card>>, panicked |-> FALSE,
          hand_cards |-> hand, dealer_up_card |-> up_card]

\* InitialSituation::new (the shoe is stored as given)
InitialSituationNew(hand, up_card) ==
    IF up_card = 0 \/ up_card > 10
    THEN [args |-> <<hand[1], hand[2], up_card>>, panicked |-> TRUE,
          hand_cards |-> <<0, 0>>, dealer_up_card |-> 0]
    ELSE IF hand[1] > 10 \/ hand[2] > 10
    THEN [args |-> <<hand[1], hand[2], up_card>>, panicked |-> TRUE,
          hand_cards |-> <<0, 0>>, dealer_up_card |-> 0]
    ELSE [args |-> <<hand[1], hand[2], up_card>>, panicked |-> FALSE,
          hand_cards |-> hand, dealer_up_card |-> up_card]

InitSituation ==
    /\ initial_situation = NoSituation
    /\ CoreIdle
    /\ FinalIdle
    /\ ArrayIdle
    /\ TableIdle
    /\ ShoeIdle
    /\ SimulatorIdle

\* a call of InitialSituation::new
NewSituation(hand, up_card) ==
    /\ initial_situation' = InitialSituationNew(hand, up_card)
    /\ UNCHANGED notSituation

NextSituation ==
    \E h0 \in SituationBytes, h1 \in SituationBytes, up_card \in SituationBytes :
        NewSituation(<<h0, h1>>, up_card)

SpecSituation == InitSituation /\ [][NextSituation]_vars

SituationCalled == initial_situation # NoSituation

\* C14: InitialSituation::new panics whenever the dealer up card or either
\* hand card lies outside 1..10, and constructs the situation only when all
\* three are within 1..10
C14_PanicsOutsideOneToTen ==
    SituationCalled =>
        (initial_situation.panicked <=>
            \E i \in 1..3 : initial_situation.args[i] \notin 1..10)

\* C14 as the code has it: the call panics exactly when the dealer up card
\* lies outside 1..10 or a hand card is above 10; a hand card of 0 (a card not
\* known yet) is accepted, and the situation holds the arguments as given
C14_PanicsOutsideRange ==
    SituationCalled =>
        /\ initial_situation.panicked <=>
              \/ initial_situation.args[3] \notin 1..10
              \/ initial_situation.args[1] \notin 0..10
              \/ initial_situation.args[2] \notin 0..10
        /\ ~initial_situation.panicked =>
              /\ initial_situation.hand_cards =
                    <<initial_situation.args[1], initial_situation.args[2]>>
              /\ initial_situation.dealer_up_card = initial_situation.args[3]

\* a situation was constructed with a hand card of 0
C14_Witness ==
    /\ SituationCalled
    /\ ~initial_situation.panicked
    /\ initial_situation.hand_cards[2] = 0
    /\ initial_situation.dealer_up_card = 10

\* a call panicked on its second hand card alone
C14_WitnessPanic ==
    /\ initial_situation.panicked
    /\ initial_situation.args = <<5, 11, 5>>


-----------------------------------------------------------------------------
(* simulation.rs and simulation/shoe.rs: Card and Shoe *)

\* a shoe holds at most this many decks
MaxShoeDecks == 1

\* shuffles and retries in one run
MaxShuffles == 1

\* calls of deal_card on a shoe that has no card left
MaxEmptyDeals == 1

FACE_VALUE_TO_BLACKJACK_VALUE == <<1, 2, 3, 4, 5, 6, 7, 8, 9, 10, 10, 10, 10>>

\* a Card is kept as the u8 of `impl Into<u8> for Card`:
\* suit * 13 + face_value - 1
face_value_of(card) == (card % 13) + 1

\* Card::blackjack_value
blackjack_value(card) == FACE_VALUE_TO_BLACKJACK_VALUE[face_value_of(card)]

\* Shoe::new: the decks one after the other, each ordered by suit and face
\* value; cut_card_proportion is the fraction <<n, d>>
ShoeNew(number_of_decks, cut_card_proportion) ==
    [number_of_decks |-> number_of_decks,
     cut_card_index  |-> (cut_card_proportion[1] * (number_of_decks * 52))
                            \div cut_card_proportion[2],
     cards           |-> [i \in 1..(number_of_decks * 52) |-> (i - 1) % 52],
     card_count      |-> with_number_of_decks(number_of_decks),
     current_index   |-> 0]

\* outcomes of `slice.shuffle(&mut thread_rng())` that the runs try: every
\* permutation is possible, these two are followed
ShuffleOutcomes == {"as_is", "reversed"}

Reversed(seq) == [i \in 1..Len(seq) |-> seq[Len(seq) + 1 - i]]

\* outcomes of a shuffle that bring cards of given blackjack values to the
\* front, in this order, and leave the other cards as they lie
StackedOutcomes == {"dealer_natural", "pair_of_aces", "pair_of_eights"}

StackedValues(outcome) ==
    CASE outcome = "dealer_natural" -> <<10, 1, 9, 10>>
      [] outcome = "pair_of_aces"   -> <<1, 6, 1, 10, 10, 9, 5>>
      [] outcome = "pair_of_eights" -> <<8, 1, 8, 6, 3, 2, 10, 5, 10>>
      [] OTHER                      -> <<>>

RECURSIVE Stacked(_, _)
Stacked(values, st) ==
    IF st.k > Len(values) THEN st.front \o st.rest
    ELSE LET i == CHOOSE i \in 1..Len(st.rest) :
                    /\ blackjack_value(st.rest[i]) = values[st.k]
                    /\ \A j \in 1..(i - 1) :
                          blackjack_value(st.rest[j]) # values[st.k]
         IN  Stacked(values,
                [k     |-> st.k + 1,
                 front |-> Append(st.front, st.rest[i]),
                 rest  |-> SubSeq(st.rest, 1, i - 1)
                              \o SubSeq(st.rest, i + 1, Len(st.rest))])

\* cards[start_index..].shuffle(..) with the given outcome
shuffle_tail(cards, start_index, outcome) ==
    IF outcome = "as_is" THEN cards
    ELSE IF outcome = "reversed"
    THEN SubSeq(cards, 1, start_index)
            \o Reversed(SubSeq(cards, start_index + 1, Len(cards)))
    ELSE SubSeq(cards, 1, start_index)
            \o Stacked(StackedValues(outcome),
                       [k |-> 1, front |-> <<>>,
                        rest |-> SubSeq(cards, start_index + 1, Len(cards))])

\* a shuffle that leaves card_count as it is
shuffle_stale_count(sh, start_index, outcome) ==
    [sh EXCEPT !.cards = shuffle_tail(sh.cards, start_index, outcome),
               !.current_index = 0]

\* Shoe::shuffle
shuffle(sh, start_index, outcome) ==
    [sh EXCEPT !.cards = shuffle_tail(sh.cards, start_index, outcome),
               !.current_index = 0,
               !.card_count = with_number_of_decks(sh.number_of_decks)]

\* Shoe::retry
retry(sh) ==
    [sh EXCEPT !.current_index = 0,
               !.card_count = with_number_of_decks(sh.number_of_decks)]

\* Shoe::deal_card
deal_card(sh) ==
    IF sh.current_index + 1 > Len(sh.cards)
    THEN [shoe |-> [sh EXCEPT !.current_index = @ + 1], some |-> FALSE, card |-> 0]
    ELSE LET card == sh.cards[sh.current_index + 1]
         IN  [shoe |-> [sh EXCEPT !.current_index = @ + 1,
                                  !.card_count = remove_card(@, blackjack_value(card))],
              some |-> TRUE, card |-> card]

\* Shoe::reached_cut_card
reached_cut_card(sh) == sh.current_index >= sh.cut_card_index

\* find_suitable_card: the loops over face_value in lo..=hi and over the
\* suits; a card number outside 0..51 ends in a panic (u8 overflow or index
\* out of bounds)
RECURSIVE find_suitable_card_loop(_, _, _)
find_suitable_card_loop(counts, hi, st) ==
    IF st.face_value > hi THEN [ok |-> FALSE, panicked |-> FALSE, card |-> 0]
    ELSE IF st.suit > 3
    THEN find_suitable_card_loop(counts, hi,
            [face_value |-> st.face_value + 1, suit |-> 0])
    ELSE LET card == st.suit * 13 + st.face_value - 1
         IN  IF card \notin 0..51
             THEN [ok |-> FALSE, panicked |-> TRUE, card |-> 0]
             ELSE IF counts[card] > 0
             THEN [ok |-> TRUE, panicked |-> FALSE, card |-> card]
             ELSE find_suitable_card_loop(counts, hi,
                    [face_value |-> st.face_value, suit |-> st.suit + 1])

\* find_suitable_card
find_suitable_card(counts, value) ==
    IF value = 10
    THEN find_suitable_card_loop(counts, 13, [face_value |-> 10, suit |-> 0])
    ELSE find_suitable_card_loop(counts, value, [face_value |-> value, suit |-> 0])

\* the loop `for blackjack_value in firsts` of shuffle_with_firsts
RECURSIVE firsts_loop(_, _)
firsts_loop(firsts, st) ==
    IF st.idx >= Len(firsts) \/ st.panicked THEN st
    ELSE LET found == find_suitable_card(st.counts, firsts[st.idx + 1])
         IN  IF ~found.ok
             THEN [st EXCEPT !.panicked = TRUE]
             ELSE firsts_loop(firsts,
                    [idx      |-> st.idx + 1,
                     counts   |-> [st.counts EXCEPT ![found.card] = @ - 1],
                     cards    |-> [st.cards EXCEPT ![st.idx + 1] = found.card],
                     panicked |-> FALSE])

\* the loops over suits and face values that lay the remaining cards
RECURSIVE rest_loop(_, _)
rest_loop(counts, st) ==
    IF st.card > 51 THEN st.cards
    ELSE rest_loop(counts,
            [card  |-> st.card + 1,
             cards |-> st.cards \o [i \in 1..counts[st.card] |-> st.card]])

\* Shoe::shuffle_with_firsts
shuffle_with_firsts(sh, firsts, outcome) ==
    LET reset == [sh EXCEPT !.current_index = 0,
                            !.card_count = with_number_of_decks(sh.number_of_decks)]
    IN  CHOOSE out \in
            { IF first.panicked
              THEN [shoe |-> [reset EXCEPT !.cards = first.cards], panicked |-> TRUE]
              ELSE [shoe |-> [reset EXCEPT !.cards =
                                shuffle_tail(rest_loop(first.counts,
                                                [card |-> 0,
                                                 cards |-> SubSeq(first.cards, 1,
                                                                  first.idx)]),
                                             Len(firsts), outcome)],
                    panicked |-> FALSE] :
              first \in { firsts_loop(firsts,
                            [idx |-> 0,
                             counts |-> [c \in 0..51 |-> sh.number_of_decks],
                             cards |-> sh.cards, panicked |-> FALSE]) } } : TRUE

\* the first cards asked for: those of tests::test_shuffle_with_firsts and
\* tests::invalid_firsts_should_panic, no card at all, five sixes, seventeen
\* tens, and a value above ten
ShoeFirsts ==
    { <<>>,
      <<1, 4, 4, 10>>,
      <<9, 10, 10, 10, 10, 10>>,
      <<1, 2, 6, 6, 9, 6, 6, 6>>,
      [i \in 1..17 |-> 10],
      <<11>> }

ShoeStartIndices == {0, 3}

InitShoe ==
    /\ \E number_of_decks \in 1..MaxShoeDecks :
          shoe_obj = ShoeNew(number_of_decks, <<1, 2>>)
    /\ dealt = <<>>
    /\ shoe_call = NoShoeCall
    /\ shuffles = 0
    /\ CoreIdle
    /\ FinalIdle
    /\ ArrayIdle
    /\ TableIdle
    /\ SituationIdle
    /\ SimulatorIdle

\* a call of deal_card
DealCardFromShoe ==
    /\ ~shoe_call.panicked
    /\ shoe_obj.current_index < Len(shoe_obj.cards) + MaxEmptyDeals
    /\ \E out \in {deal_card(shoe_obj)} :
           /\ shoe_obj' = out.shoe
           /\ dealt' = IF out.some THEN Append(dealt, out.card) ELSE dealt
           /\ shoe_call' = [op |-> "deal_card", firsts |-> <<>>,
                            some |-> out.some, card |-> out.card,
                            panicked |-> FALSE]
    /\ UNCHANGED <<shuffles, notShoe>>

\* a call of shuffle
ShuffleShoe(start_index, outcome) ==
    /\ ~shoe_call.panicked
    /\ shuffles < MaxShuffles
    /\ shoe_obj' = shuffle(shoe_obj, start_index, outcome)
    /\ dealt' = <<>>
    /\ shoe_call' = [NoShoeCall EXCEPT !.op = "shuffle"]
    /\ shuffles' = shuffles + 1
    /\ UNCHANGED notShoe

\* a call of retry
RetryShoe ==
    /\ ~shoe_call.panicked
    /\ shuffles < MaxShuffles
    /\ shoe_obj' = retry(shoe_obj)
    /\ dealt' = <<>>
    /\ shoe_call' = [NoShoeCall EXCEPT !.op = "retry"]
    /\ shuffles' = shuffles + 1
    /\ UNCHANGED notShoe

\* a call of shuffle_with_firsts; a panic ends the run
ShuffleShoeWithFirsts(firsts, outcome) ==
    /\ ~shoe_call.panicked
    /\ shuffles < MaxShuffles
    /\ \E out \in {shuffle_with_firsts(shoe_obj, firsts, outcome)} :
           /\ shoe_obj' = out.shoe
           /\ shoe_call' = [NoShoeCall EXCEPT !.op = "shuffle_with_firsts",
                                              !.firsts = firsts,
                                              !.panicked = out.panicked]
    /\ dealt' = <<>>
    /\ shuffles' = shuffles + 1
    /\ UNCHANGED notShoe

NextShoe ==
    \/ DealCardFromShoe
    \/ \E start_index \in ShoeStartIndices, outcome \in ShuffleOutcomes :
          ShuffleShoe(start_index, outcome)
    \/ RetryShoe
    \/ \E firsts \in ShoeFirsts, outcome \in ShuffleOutcomes :
          ShuffleShoeWithFirsts(firsts, outcome)

SpecShoe == InitShoe /\ [][NextShoe]_vars

\* the number of cards of a blackjack value among the first n of a sequence
CountValue(cards, value, n) ==
    Cardinality({i \in 1..n : blackjack_value(cards[i]) = value})

\* the number of copies of one card in a sequence
CountCard(cards, card, n) == Cardinality({i \in 1..n : cards[i] = card})

\* the cards of each blackjack value in n full decks
FullDecks(n, value) == IF value = 10 THEN 16 * n ELSE 4 * n

\* C18: after any sequence of deal_card, shuffle, retry and
\* shuffle_with_firsts the card_count is, rank by rank, the full decks minus
\* the cards deal_card returned since the last shuffle or retry; the cards
\* are returned in stored order; and once every card is dealt deal_card
\* returns None and no count changes
C18_CardCountSynced ==
    ~shoe_call.panicked =>
        /\ \A value \in CardValues :
              shoe_obj.card_count.counts[value] =
                  FullDecks(shoe_obj.number_of_decks, value)
                      - CountValue(dealt, value, Len(dealt))
        /\ shoe_obj.card_count = CardCountNew(shoe_obj.card_count.counts)
        /\ Len(dealt) = Min2(shoe_obj.current_index, Len(shoe_obj.cards))
        /\ dealt = SubSeq(shoe_obj.cards, 1, Len(dealt))
        /\ shoe_call.op = "deal_card" =>
              (shoe_call.some <=> shoe_obj.current_index <= Len(shoe_obj.cards))
        /\ (shoe_call.op = "deal_card" /\ ~shoe_call.some) =>
              shoe_obj.card_count.counts = ZeroCounts

\* every card of two decks was dealt after a shuffle, and the next deal_card
\* returned None
C18_Witness ==
    /\ shuffles > 0
    /\ Len(dealt) = 52 * shoe_obj.number_of_decks
    /\ shoe_call.op = "deal_card"
    /\ ~shoe_call.some

\* the number of entries of firsts equal to a value
CountFirsts(firsts, value, n) == Cardinality({i \in 1..n : firsts[i] = value})

\* the cards of a blackjack value that n decks hold
CardsOfValue(n, value) == IF value \in CardValues THEN FullDecks(n, value) ELSE 0

\* firsts asks for more cards of some value than n decks hold
AsksTooMany(firsts, n) ==
    \E value \in 0..255 :
        CountFirsts(firsts, value, Len(firsts)) > CardsOfValue(n, value)

\* C19: after shuffle_with_firsts(firsts) the shoe holds number_of_decks
\* copies of each of the 52 cards, nothing is dealt, and the card at each
\* position i < len(firsts) has the blackjack value firsts[i]; when firsts
\* asks for more cards of a value than the shoe contains the call panics
C19_FirstsAreInFront ==
    shoe_call.op = "shuffle_with_firsts" =>
        /\ AsksTooMany(shoe_call.firsts, shoe_obj.number_of_decks)
              => shoe_call.panicked
        /\ ~shoe_call.panicked =>
              /\ \A card \in 0..51 :
                    CountCard(shoe_obj.cards, card, Len(shoe_obj.cards))
                        = shoe_obj.number_of_decks
              /\ shoe_obj.current_index = 0
              /\ shoe_obj.card_count = with_number_of_decks(shoe_obj.number_of_decks)
              /\ \A i \in 1..Len(shoe_call.firsts) :
                    blackjack_value(shoe_obj.cards[i]) = shoe_call.firsts[i]

\* shuffle_with_firsts returned for a first card of value 11, with a card of
\* value 10 in front
C19_CourtCardInFront ==
    /\ shoe_call.op = "shuffle_with_firsts"
    /\ ~shoe_call.panicked
    /\ shoe_call.firsts = <<11>>
    /\ blackjack_value(shoe_obj.cards[1]) = 10


-----------------------------------------------------------------------------
(* simulation/hand.rs: Hand *)

\* Group::new with bet 0
NewGroupBetPair ==
    [cards |-> <<>>, card_count |-> with_number_of_decks(0), bet |-> 0,
     win_already_determined |-> FALSE]

\* Hand::new
HandNew == <<NewGroupBetPair>>

\* Hand::receive_card; group_index counts from 0
receive_card(hand, group_index, card) ==
    [hand EXCEPT ![group_index + 1].cards = Append(@, card),
                 ![group_index + 1].card_count = add_card(@, blackjack_value(card))]

\* Hand::split_group
split_group(hand, group_index) ==
    LET group == hand[group_index + 1]
        card  == group.cards[Len(group.cards)]
    IN  Append([hand EXCEPT ![group_index + 1].cards = SubSeq(@, 1, Len(@) - 1),
                            ![group_index + 1].card_count =
                                remove_card(@, blackjack_value(card))],
               [cards |-> <<card>>,
                card_count |-> add_card(with_number_of_decks(0), blackjack_value(card)),
                bet |-> group.bet,
                win_already_determined |-> FALSE])

\* Hand::double_down
double_down(hand, group_index) ==
    [hand EXCEPT ![group_index + 1].bet = (@ * 2)]

\* Hand::set_original_bet
set_original_bet(hand, bet) == [hand EXCEPT ![1].bet = bet]

\* Hand::determine_winning; the multiplier is the fraction <<n, d>>
hand_determine_winning(hand, group_index, multiplier) ==
    [hand EXCEPT ![group_index + 1].win_already_determined = TRUE,
                 ![group_index + 1].bet = (@ * multiplier[1]) \div multiplier[2]]

-----------------------------------------------------------------------------
(* simulation.rs: Simulator *)

MAX_PLAYER == 10

\* rounds started in one run
MaxRounds == 1

GamePhase ==
    {"WaitForPlayerSeat", "PlaceBets", "DealInitialCards", "DealerPeek",
     "WaitForRightPlayers", "PlaySplit", "Play", "WaitForLeftPlayers",
     "DealerPlayAndSummary", "StartNewShoe"}

\* tests::get_typical_rule with a shoe of one deck
SimulatorRule ==
    [number_of_decks      |-> 1,
     cut_card_proportion  |-> <<1, 2>>,
     split_all_limits     |-> 1,
     split_ace_limits     |-> 1,
     dealer_hit_on_soft17 |-> FALSE,
     allow_das            |-> FALSE,
     allow_late_surrender |-> FALSE,
     peek_policy          |-> "UpAce",
     charlie_number       |-> 6,
     payout_blackjack     |-> <<3, 2>>,
     payout_insurance     |-> <<2, 1>>]

\* Simulator::new; the order is the outcome of shoe.shuffle(0)
SimulatorNew(r, outcome) ==
    [rule                        |-> r,
     number_of_players           |-> 0,
     seat_order                  |-> 0,
     current_game_phase          |-> "WaitForPlayerSeat",
     shoe                        |-> shuffle(ShoeNew(r.number_of_decks,
                                                    r.cut_card_proportion),
                                            0, outcome),
     dealer_hand                 |-> HandNew,
     insurance_bet               |-> 0,
     current_split_all_times     |-> 0,
     current_split_ace_times     |-> 0,
     current_playing_group_index |-> 0,
     current_hand                |-> HandNew]

\* what a method returns: the simulator it leaves, Ok, Err or a panic, and the
\* value inside Ok (a bool as 0 or 1)
Ok(s, value) == [sim |-> s, result |-> "Ok", value |-> value]
Err(s) == [sim |-> s, result |-> "Err", value |-> 0]
Panic(s) == [sim |-> s, result |-> "panic", value |-> 0]

\* new_game
new_game(s) ==
    [s EXCEPT !.dealer_hand = HandNew,
              !.current_split_all_times = 0,
              !.current_split_ace_times = 0,
              !.current_playing_group_index = 0,
              !.current_hand = HandNew,
              !.insurance_bet = 0]

\* move_to_next_group
move_to_next_group(s) ==
    LET next == [s EXCEPT !.current_playing_group_index = @ + 1]
    IN  IF next.current_playing_group_index = Len(next.current_hand)
        THEN [next EXCEPT !.current_game_phase = "WaitForLeftPlayers"]
        ELSE next

\* receive_card_for_me, receive_card_for_dealer, determine_winning
receive_card_for_me(s, card) ==
    [s EXCEPT !.current_hand = receive_card(@, s.current_playing_group_index, card)]

receive_card_for_dealer(s, card) ==
    [s EXCEPT !.dealer_hand = receive_card(@, 0, card)]

determine_winning(s, multiplier) ==
    [s EXCEPT !.current_hand =
        hand_determine_winning(@, s.current_playing_group_index, multiplier)]

get_my_current_card_count(s) ==
    s.current_hand[s.current_playing_group_index + 1].card_count

\* reached_split_time_limits
reached_split_time_limits(s) ==
    \/ s.current_split_all_times = s.rule.split_all_limits
    \/ s.current_split_ace_times = s.rule.split_ace_limits

\* seat_player, #[allowed_phase(WaitForPlayerSeat)]
seat_player(s, number_of_players, seat_order) ==
    IF s.current_game_phase # "WaitForPlayerSeat" THEN Err(s)
    ELSE IF number_of_players > MAX_PLAYER THEN Err(s)
    ELSE IF seat_order >= number_of_players THEN Err(s)
    ELSE LET fresh == new_game([s EXCEPT !.current_game_phase = "PlaceBets"])
         IN  IF number_of_players = 0 /\ seat_order = 0 THEN Ok(fresh, 0)
             ELSE Ok([fresh EXCEPT !.number_of_players = number_of_players,
                                   !.seat_order = seat_order], 0)

\* (x as f64 * m).fract() != 0.0 for the fraction m
HasFraction(x, m) == (x * m[1]) % m[2] # 0

\* place_bets, #[allowed_phase(PlaceBets)]
place_bets(s, bet) ==
    IF s.current_game_phase # "PlaceBets" THEN Err(s)
    ELSE IF HasFraction(bet, s.rule.payout_blackjack) THEN Err(s)
    ELSE IF bet % 2 # 0 THEN Err(s)
    ELSE IF HasFraction(bet \div 2, s.rule.payout_insurance) THEN Err(s)
    ELSE Ok([s EXCEPT !.current_hand = set_original_bet(@, bet),
                      !.current_game_phase = "DealInitialCards"], 0)

\* the loops of deal_initial_cards: st.turn runs over the players and, as
\* number_of_players, the dealer; a shoe without a card is a panic of unwrap
RECURSIVE deal_initial_cards_loop(_)
deal_initial_cards_loop(st) ==
    IF st.pass >= 2 \/ st.panicked THEN st
    ELSE LET out == deal_card(st.sim.shoe)
             took == [st.sim EXCEPT !.shoe = out.shoe]
         IN  IF ~out.some THEN [st EXCEPT !.panicked = TRUE]
             ELSE IF st.turn = st.sim.number_of_players
             THEN deal_initial_cards_loop(
                    [sim |-> receive_card_for_dealer(took, out.card),
                     pass |-> st.pass + 1, turn |-> 0, panicked |-> FALSE])
             ELSE deal_initial_cards_loop(
                    [sim |-> IF st.turn = st.sim.seat_order
                             THEN receive_card_for_me(took, out.card) ELSE took,
                     pass |-> st.pass, turn |-> st.turn + 1, panicked |-> FALSE])

\* deal_initial_cards, #[allowed_phase(DealInitialCards)]
deal_initial_cards(s) ==
    IF s.current_game_phase # "DealInitialCards" THEN Err(s)
    ELSE LET done == deal_initial_cards_loop(
                        [sim |-> s, pass |-> 0, turn |-> 0, panicked |-> FALSE])
         IN  IF done.panicked THEN Panic(s)
             ELSE Ok([done.sim EXCEPT !.current_game_phase = "DealerPeek"], 0)

\* the match on peek_policy
dealer_will_peek(s) ==
    LET up == blackjack_value(s.dealer_hand[1].cards[1])
    IN  CASE s.rule.peek_policy = "UpAceOrTen" -> up = 1 \/ up = 10
          [] s.rule.peek_policy = "UpAce"      -> up = 1
          [] OTHER                             -> FALSE

\* dealer_peeks
dealer_peeks(s, buy_insurance) ==
    LET bought == IF buy_insurance
                  THEN [s EXCEPT !.insurance_bet = s.current_hand[1].bet \div 2]
                  ELSE s
        up     == blackjack_value(s.dealer_hand[1].cards[1])
        hole   == blackjack_value(s.dealer_hand[1].cards[2])
    IN  IF up + hole = 11
        THEN Ok([bought EXCEPT
                    !.insurance_bet =
                        (@ + ((@ * s.rule.payout_insurance[1])
                                \div s.rule.payout_insurance[2])),
                    !.current_game_phase = "DealerPlayAndSummary"], 1)
        ELSE Ok([bought EXCEPT !.insurance_bet = 0,
                               !.current_game_phase = "WaitForRightPlayers"], 0)

\* dealer_peeks_if_necessary, #[allowed_phase(DealerPeek)]
dealer_peeks_if_necessary(s, buy_insurance) ==
    IF s.current_game_phase # "DealerPeek" THEN Err(s)
    ELSE IF ~dealer_will_peek(s)
    THEN IF buy_insurance THEN Err(s)
         ELSE Ok([s EXCEPT !.current_game_phase = "WaitForRightPlayers"], 0)
    ELSE dealer_peeks(s, buy_insurance)

\* wait_for_right_players, #[allowed_phase(WaitForRightPlayers)]
wait_for_right_players(s) ==
    IF s.current_game_phase # "WaitForRightPlayers" THEN Err(s)
    ELSE Ok([s EXCEPT !.current_game_phase = "PlaySplit"], 0)

\* play_split, #[allowed_phase(PlaySplit)]; a group index past the groups is
\* a panic of the index, a shoe without a card a panic of unwrap
play_split(s, group_index) ==
    IF s.current_game_phase # "PlaySplit" THEN Err(s)
    ELSE IF reached_split_time_limits(s) THEN Err(s)
    ELSE IF group_index >= Len(s.current_hand) THEN Panic(s)
    ELSE LET cards == s.current_hand[group_index + 1].cards
         IN  IF blackjack_value(cards[1]) # blackjack_value(cards[2]) THEN Err(s)
             ELSE LET counted ==
                        [s EXCEPT !.current_split_all_times = @ + 1,
                                  !.current_split_ace_times =
                                     IF blackjack_value(cards[1]) = 1 THEN @ + 1 ELSE @,
                                  !.current_hand = split_group(@, group_index)]
                      first  == deal_card(counted.shoe)
                      second == deal_card(first.shoe)
                  IN  IF ~first.some \/ ~second.some THEN Panic(s)
                      ELSE LET after ==
                                 [counted EXCEPT
                                    !.shoe = second.shoe,
                                    !.current_hand =
                                        receive_card(
                                            receive_card(@, group_index, first.card),
                                            Len(@) - 1, second.card)]
                           IN  Ok(after, IF reached_split_time_limits(after)
                                         THEN 1 ELSE 0)

\* a stop_split that goes on to Play after any split
stop_split_to_play(s) ==
    IF s.current_game_phase # "PlaySplit" THEN Err(s)
    ELSE Ok([s EXCEPT !.current_game_phase = "Play"], 0)

\* stop_split, #[allowed_phase(PlaySplit)]
stop_split(s) ==
    IF s.current_game_phase # "PlaySplit" THEN Err(s)
    ELSE Ok([s EXCEPT !.current_game_phase =
                IF s.current_split_ace_times > 0 THEN "WaitForLeftPlayers"
                ELSE "Play"], 0)

\* a play_stand without the check of the phase
play_stand_unchecked(s) == Ok(move_to_next_group(s), 1)

\* play_stand, #[allowed_phase(Play)]
play_stand(s) ==
    IF s.current_game_phase # "Play" THEN Err(s)
    ELSE Ok(move_to_next_group(s), 1)

\* play_hit, #[allowed_phase(Play)]
play_hit(s) ==
    IF s.current_game_phase # "Play" THEN Err(s)
    ELSE LET out == deal_card(s.shoe)
         IN  IF ~out.some THEN Panic(s)
             ELSE LET got == receive_card_for_me([s EXCEPT !.shoe = out.shoe], out.card)
                      my_card_count == get_my_current_card_count(got)
                  IN  IF bust(my_card_count)
                      THEN Ok(move_to_next_group(determine_winning(got, <<0, 1>>)), 1)
                      ELSE IF get_total(my_card_count) = s.rule.charlie_number
                      THEN Ok(move_to_next_group(determine_winning(got, <<2, 1>>)), 1)
                      ELSE Ok(got, 0)

\* play_double, #[allowed_phase(Play)]
play_double(s) ==
    IF s.current_game_phase # "Play" THEN Err(s)
    ELSE IF get_total(get_my_current_card_count(s)) # 2 THEN Err(s)
    ELSE IF Len(s.current_hand) > 1 /\ ~s.rule.allow_das THEN Err(s)
    ELSE LET out == deal_card(s.shoe)
         IN  IF ~out.some THEN Panic(s)
             ELSE LET got == receive_card_for_me([s EXCEPT !.shoe = out.shoe], out.card)
                      doubled == [got EXCEPT !.current_hand =
                                    double_down(@, s.current_playing_group_index)]
                  IN  IF bust(get_my_current_card_count(doubled))
                      THEN Ok(move_to_next_group(determine_winning(doubled, <<0, 1>>)), 1)
                      ELSE Ok(move_to_next_group(doubled), 1)

\* play_surrender, #[allowed_phase(Play)]
play_surrender(s) ==
    IF s.current_game_phase # "Play" THEN Err(s)
    ELSE IF ~s.rule.allow_late_surrender THEN Err(s)
    ELSE Ok(move_to_next_group(determine_winning(s, <<1, 2>>)), 1)

\* wait_for_left_players, #[allowed_phase(WaitForLeftPlayers)]
wait_for_left_players(s) ==
    IF s.current_game_phase # "WaitForLeftPlayers" THEN Err(s)
    ELSE Ok([s EXCEPT !.current_game_phase = "DealerPlayAndSummary"], 0)

\* the dealer must stand
dealer_must_stand(s) ==
    LET dealer_card_count == s.dealer_hand[1].card_count
        actual_sum == get_actual_sum(dealer_card_count)
    IN  IF actual_sum > 17 THEN TRUE
        ELSE IF actual_sum < 17 THEN FALSE
        ELSE IF ~is_soft(dealer_card_count) THEN TRUE
        ELSE ~s.rule.dealer_hit_on_soft17

\* what one group wins against the standing dealer
this_group_win(s, i) ==
    LET my_card_count == s.current_hand[i + 1].card_count
        dealer_card_count == s.dealer_hand[1].card_count
        bet == s.current_hand[i + 1].bet
    IN  IF s.current_hand[i + 1].win_already_determined THEN bet
        ELSE IF is_natural(my_card_count) /\ Len(s.current_hand) = 1
        THEN IF ~is_natural(dealer_card_count)
             THEN (bet + ((bet * s.rule.payout_blackjack[1])
                            \div s.rule.payout_blackjack[2]))
             ELSE bet
        ELSE IF bust(dealer_card_count) THEN (bet * 2)
        ELSE IF is_natural(dealer_card_count) THEN 0
        ELSE IF get_actual_sum(my_card_count) < get_actual_sum(dealer_card_count)
        THEN 0
        ELSE IF get_actual_sum(my_card_count) > get_actual_sum(dealer_card_count)
        THEN (bet * 2)
        ELSE bet

RECURSIVE total_win(_, _)
total_win(s, i) ==
    IF i >= Len(s.current_hand) THEN 0
    ELSE (this_group_win(s, i) + total_win(s, i + 1))

\* the loop of dealer_plays_and_summary
RECURSIVE dealer_plays_loop(_)
dealer_plays_loop(st) ==
    IF st.panicked \/ dealer_must_stand(st.sim) THEN st
    ELSE LET out == deal_card(st.sim.shoe)
         IN  IF ~out.some THEN [st EXCEPT !.panicked = TRUE]
             ELSE dealer_plays_loop(
                    [sim |-> receive_card_for_dealer(
                                [st.sim EXCEPT !.shoe = out.shoe], out.card),
                     panicked |-> FALSE])

\* dealer_plays_and_summary, #[allowed_phase(DealerPlayAndSummary)]
dealer_plays_and_summary(s) ==
    IF s.current_game_phase # "DealerPlayAndSummary" THEN Err(s)
    ELSE LET done == dealer_plays_loop([sim |-> s, panicked |-> FALSE])
         IN  IF done.panicked THEN Panic(s)
             ELSE Ok([done.sim EXCEPT !.current_game_phase = "StartNewShoe"],
                     (total_win(done.sim, 0) + s.insurance_bet))

\* start_new_shoe_if_necessary, #[allowed_phase(StartNewShoe)]; the outcome
\* is that of the shuffle, when there is one
start_new_shoe_if_necessary(s, outcome) ==
    IF s.current_game_phase # "StartNewShoe" THEN Err(s)
    ELSE Ok([s EXCEPT !.shoe = IF reached_cut_card(s.shoe)
                               THEN shuffle(s.shoe, 0, outcome) ELSE s.shoe,
                      !.current_game_phase = "WaitForPlayerSeat"], 0)

\* the phase each method is allowed in
AllowedPhase ==
    [seat_player                            |-> "WaitForPlayerSeat",
     automatic_simulate_with_fixed_main_bet |-> "PlaceBets",
     place_bets                             |-> "PlaceBets",
     deal_initial_cards                     |-> "DealInitialCards",
     dealer_peeks_if_necessary              |-> "DealerPeek",
     wait_for_right_players                 |-> "WaitForRightPlayers",
     play_split                             |-> "PlaySplit",
     stop_split                             |-> "PlaySplit",
     play_stand                             |-> "Play",
     play_hit                               |-> "Play",
     play_double                            |-> "Play",
     play_surrender                         |-> "Play",
     wait_for_left_players                  |-> "WaitForLeftPlayers",
     dealer_plays_and_summary               |-> "DealerPlayAndSummary",
     start_new_shoe_if_necessary            |-> "StartNewShoe"]

\* arguments tried; the bets, and with them every u32 of a run, stay below 100
SeatArguments == {<<0, 0>>, <<1, 0>>, <<2, 1>>, <<11, 0>>}
BetArguments == {2, 3}
GroupIndexArguments == {0, 1}

\* the outcomes tried for the shuffle of a shoe that reached its cut card
NewShoeOutcomes ==
    IF reached_cut_card(simulator.shoe) THEN StackedOutcomes ELSE {"as_is"}

InitSimulator ==
    /\ \E outcome \in StackedOutcomes :
          simulator = SimulatorNew(SimulatorRule, outcome)
    /\ last_call = NoCall
    /\ rounds = 0
    /\ settled = 0
    /\ peeked_natural = FALSE
    /\ auto = NoAuto
    /\ CoreIdle
    /\ FinalIdle
    /\ ArrayIdle
    /\ TableIdle
    /\ SituationIdle
    /\ ShoeIdle

\* the limits the rule supports ("Only supports 0 or 1 now"), as
\* <<split_all_limits, split_ace_limits>>
SplitLimits == {<<1, 1>>, <<1, 0>>, <<0, 1>>, <<0, 0>>}

\* a simulator of a rule with any of the supported split limits, on a shoe
\* that deals the player a pair
InitSplitLimits ==
    /\ \E limits \in SplitLimits,
          outcome \in {"pair_of_aces", "pair_of_eights"} :
          simulator = SimulatorNew([SimulatorRule EXCEPT
                                       !.split_all_limits = limits[1],
                                       !.split_ace_limits = limits[2]],
                                   outcome)
    /\ last_call = NoCall
    /\ rounds = 0
    /\ settled = 0
    /\ peeked_natural = FALSE
    /\ auto = NoAuto
    /\ CoreIdle
    /\ FinalIdle
    /\ ArrayIdle
    /\ TableIdle
    /\ SituationIdle
    /\ ShoeIdle

\* a caller may call while no method runs and nothing panicked
MayCall == auto.pc = "idle" /\ last_call.result # "panic"

\* the bookkeeping of a call that returned `out`; the arguments are kept
\* for a call made in its phase
Called(op, args, out) ==
    /\ simulator' = out.sim
    /\ last_call' =
          LET in_phase == simulator.current_game_phase = AllowedPhase[op]
          IN  [op |-> op, args |-> IF in_phase THEN args ELSE <<>>,
               result |-> out.result, in_phase |-> in_phase]
    /\ UNCHANGED <<auto, notSim>>

Unsettled == UNCHANGED <<rounds, settled, peeked_natural>>

\* a call of seat_player
SeatPlayer(number_of_players, seat_order) ==
    /\ MayCall
    /\ LET out == seat_player(simulator, number_of_players, seat_order)
       IN  /\ out.result = "Ok" => rounds < MaxRounds
           /\ Called("seat_player", <<number_of_players, seat_order>>, out)
           /\ rounds' = IF out.result = "Ok" THEN rounds + 1 ELSE rounds
           /\ settled' = IF out.result = "Ok" THEN 0 ELSE settled
           /\ peeked_natural' = IF out.result = "Ok" THEN FALSE ELSE peeked_natural

\* a call of place_bets
PlaceBets(bet) ==
    /\ MayCall
    /\ Called("place_bets", <<bet>>, place_bets(simulator, bet))
    /\ Unsettled

\* a call of deal_initial_cards
DealInitialCards ==
    /\ MayCall
    /\ Called("deal_initial_cards", <<>>, deal_initial_cards(simulator))
    /\ Unsettled

\* a call of dealer_peeks_if_necessary
DealerPeeksIfNecessary(buy_insurance) ==
    /\ MayCall
    /\ LET out == dealer_peeks_if_necessary(simulator, buy_insurance)
       IN  /\ Called("dealer_peeks_if_necessary",
                  <<IF buy_insurance THEN 1 ELSE 0>>, out)
           /\ peeked_natural' = (peeked_natural \/ (out.result = "Ok" /\ out.value = 1))
    /\ UNCHANGED <<rounds, settled>>

\* a call of wait_for_right_players
WaitForRightPlayers ==
    /\ MayCall
    /\ Called("wait_for_right_players", <<>>, wait_for_right_players(simulator))
    /\ Unsettled

\* a call of play_split
PlaySplit(group_index) ==
    /\ MayCall
    /\ Called("play_split", <<group_index>>, play_split(simulator, group_index))
    /\ Unsettled

\* a call of stop_split
StopSplit ==
    /\ MayCall
    /\ Called("stop_split", <<>>, stop_split(simulator))
    /\ Unsettled

\* a call of play_stand
PlayStand ==
    /\ MayCall
    /\ Called("play_stand", <<>>, play_stand(simulator))
    /\ Unsettled

\* a call of play_hit
PlayHit ==
    /\ MayCall
    /\ Called("play_hit", <<>>, play_hit(simulator))
    /\ Unsettled

\* a call of play_double
PlayDouble ==
    /\ MayCall
    /\ Called("play_double", <<>>, play_double(simulator))
    /\ Unsettled

\* a call of play_surrender
PlaySurrender ==
    /\ MayCall
    /\ Called("play_surrender", <<>>, play_surrender(simulator))
    /\ Unsettled

\* a call of wait_for_left_players
WaitForLeftPlayers ==
    /\ MayCall
    /\ Called("wait_for_left_players", <<>>, wait_for_left_players(simulator))
    /\ Unsettled

\* a call of dealer_plays_and_summary
DealerPlaysAndSummary ==
    /\ MayCall
    /\ LET out == dealer_plays_and_summary(simulator)
       IN  /\ Called("dealer_plays_and_summary", <<>>, out)
           /\ settled' = IF out.result = "Ok" THEN settled + 1 ELSE settled
    /\ UNCHANGED <<rounds, peeked_natural>>

\* a call of start_new_shoe_if_necessary
StartNewShoeIfNecessary(outcome) ==
    /\ MayCall
    /\ Called("start_new_shoe_if_necessary", <<>>,
              start_new_shoe_if_necessary(simulator, outcome))
    /\ Unsettled

\* decisions the strategy of an automatic run makes
AutoDecisions == {"Stand", "Hit"}

\* a call of automatic_simulate_with_fixed_main_bet: in a wrong phase it
\* returns Err; otherwise the method starts to run
AutomaticSimulate(main_bet) ==
    /\ MayCall
    /\ IF simulator.current_game_phase # "PlaceBets"
       THEN /\ last_call' = [op |-> "automatic_simulate_with_fixed_main_bet",
                             args |-> <<>>, result |-> "Err",
                             in_phase |-> FALSE]
            /\ UNCHANGED auto
       ELSE /\ last_call' = [op |-> "automatic_simulate_with_fixed_main_bet",
                             args |-> <<main_bet>>, result |-> "running",
                             in_phase |-> TRUE]
            /\ auto' = [pc |-> "place_bets", main_bet |-> main_bet,
                        splits_left |-> 0, events |-> <<"on_game_begin">>]
    /\ UNCHANGED <<simulator, rounds, settled, peeked_natural, notSim>>

\* the running method goes on to its next call after the handler received
\* the events of the step, or returns what a failed call returned
AutoGoes(out, next_pc, splits_left, handled) ==
    /\ simulator' = out.sim
    /\ IF out.result = "Ok"
       THEN /\ auto' = [auto EXCEPT !.pc = next_pc, !.splits_left = splits_left,
                                    !.events = @ \o handled]
            /\ last_call' = IF next_pc = "idle" THEN [last_call EXCEPT !.result = "Ok"]
                            ELSE last_call
       ELSE /\ auto' = NoAuto
            /\ last_call' = [last_call EXCEPT !.result = out.result]
    /\ UNCHANGED notSim

\* a method that announces an early end of every round
early_end_events_always(dealer_peeks_and_gets_natural) ==
    <<"on_game_early_end">>

\* the else branch of `if !dealer_peeks_and_gets_natural`
early_end_events(dealer_peeks_and_gets_natural) ==
    IF dealer_peeks_and_gets_natural THEN <<"on_game_early_end">> ELSE <<>>

\* check_bust_or_charlie: the events the handler receives
check_bust_or_charlie(s, group_index) ==
    LET hand == s.current_hand[group_index + 1].card_count
    IN  IF bust(hand) THEN <<"on_player_bust">>
        ELSE IF get_total(hand) = s.rule.charlie_number
        THEN <<"on_player_charlie">>
        ELSE <<>>

\* split_time_limit
split_time_limit(s) ==
    LET current_card == s.current_hand[1].cards
    IN  IF blackjack_value(current_card[1]) = blackjack_value(current_card[2])
        THEN IF blackjack_value(current_card[1]) = 1
             THEN s.rule.split_ace_limits ELSE s.rule.split_all_limits
        ELSE 0

\* self.place_bets(main_bet)?
AutoPlaceBets ==
    /\ auto.pc = "place_bets"
    /\ AutoGoes(place_bets(simulator, auto.main_bet), "deal_initial_cards", 0,
                <<"on_bet_money">>)
    /\ Unsettled

\* self.deal_initial_cards()?
AutoDealInitialCards ==
    /\ auto.pc = "deal_initial_cards"
    /\ AutoGoes(deal_initial_cards(simulator), "peek", 0, <<"on_deal_cards">>)
    /\ Unsettled

\* the block dealer_peeks_and_gets_natural
AutoPeek ==
    /\ auto.pc = "peek"
    /\ IF dealer_will_peek(simulator)
       THEN \E buy_insurance \in BOOLEAN :
               LET out == dealer_peeks(simulator, buy_insurance)
               IN  /\ AutoGoes(out, IF out.value = 1 THEN "dealer_plays_and_summary"
                                    ELSE "wait_for_right_players", 0,
                               <<"on_buy_insurance">>
                                   \o early_end_events(out.value = 1))
                   /\ peeked_natural' = (out.value = 1)
       ELSE /\ AutoGoes(Ok([simulator EXCEPT
                               !.current_game_phase = "WaitForRightPlayers"], 0),
                        "wait_for_right_players", 0, <<>>)
            /\ UNCHANGED peeked_natural
    /\ UNCHANGED <<rounds, settled>>

\* self.wait_for_right_players()? and the split_time_limit
AutoWaitForRightPlayers ==
    /\ auto.pc = "wait_for_right_players"
    /\ AutoGoes(wait_for_right_players(simulator), "split",
                split_time_limit(simulator), <<>>)
    /\ Unsettled

\* one pass of the loop `for _ in 0..split_time_limit`: the strategy names a
\* group to split, or none
AutoSplit ==
    /\ auto.pc = "split"
    /\ \/ /\ auto.splits_left > 0
          /\ \E group_index \in GroupIndexArguments :
                AutoGoes(play_split(simulator, group_index), "split",
                         auto.splits_left - 1, <<"on_split">>)
       \/ AutoGoes(Ok(simulator, 0), "stop_split", 0, <<>>)
    /\ Unsettled

\* self.stop_split()?
AutoStopSplit ==
    /\ auto.pc = "stop_split"
    /\ LET out == stop_split(simulator)
       IN  AutoGoes(out, IF simulator.current_split_ace_times = 0
                         THEN "decide" ELSE "wait_for_left_players", 0, <<>>)
    /\ Unsettled

\* one pass of the loops of loop_make_decisions_single and
\* loop_make_decisions_multiple: they end when the last group is finished,
\* which is when move_to_next_group left the phase Play
AutoDecide ==
    /\ auto.pc = "decide"
    /\ \E made \in AutoDecisions :
          LET out == IF made = "Stand" THEN play_stand(simulator)
                     ELSE play_hit(simulator)
          IN  AutoGoes(IF out.result = "Err" THEN Panic(simulator) ELSE out,
                       IF out.sim.current_game_phase = "Play"
                       THEN "decide" ELSE "wait_for_left_players", 0,
                       <<"on_make_decision">>
                           \o IF made = "Hit"
                                 /\ (simulator.current_split_all_times = 0
                                       \/ out.value = 1)
                              THEN check_bust_or_charlie(out.sim,
                                      simulator.current_playing_group_index)
                              ELSE <<>>)
    /\ Unsettled

\* self.wait_for_left_players()?
AutoWaitForLeftPlayers ==
    /\ auto.pc = "wait_for_left_players"
    /\ AutoGoes(wait_for_left_players(simulator), "dealer_plays_and_summary", 0,
                <<>>)
    /\ Unsettled

\* self.dealer_plays_and_summary()?
AutoDealerPlaysAndSummary ==
    /\ auto.pc = "dealer_plays_and_summary"
    /\ LET out == dealer_plays_and_summary(simulator)
       IN  /\ AutoGoes(out, "start_new_shoe_if_necessary", 0,
                       <<"on_summary_game">>)
           /\ settled' = IF out.result = "Ok" THEN settled + 1 ELSE settled
    /\ UNCHANGED <<rounds, peeked_natural>>

\* self.start_new_shoe_if_necessary()? and Ok(())
AutoStartNewShoeIfNecessary(outcome) ==
    /\ auto.pc = "start_new_shoe_if_necessary"
    /\ AutoGoes(start_new_shoe_if_necessary(simulator, outcome), "idle", 0,
                <<>>)
    /\ Unsettled

NextSimulator ==
    \/ \E args \in SeatArguments : SeatPlayer(args[1], args[2])
    \/ \E main_bet \in BetArguments : AutomaticSimulate(main_bet)
    \/ AutoPlaceBets
    \/ AutoDealInitialCards
    \/ AutoPeek
    \/ AutoWaitForRightPlayers
    \/ AutoSplit
    \/ AutoStopSplit
    \/ AutoDecide
    \/ AutoWaitForLeftPlayers
    \/ AutoDealerPlaysAndSummary
    \/ \E outcome \in NewShoeOutcomes : AutoStartNewShoeIfNecessary(outcome)
    \/ \E bet \in BetArguments : PlaceBets(bet)
    \/ DealInitialCards
    \/ \E buy_insurance \in BOOLEAN : DealerPeeksIfNecessary(buy_insurance)
    \/ WaitForRightPlayers
    \/ \E group_index \in GroupIndexArguments : PlaySplit(group_index)
    \/ StopSplit
    \/ PlayStand
    \/ PlayHit
    \/ PlayDouble
    \/ PlaySurrender
    \/ WaitForLeftPlayers
    \/ DealerPlaysAndSummary
    \/ \E outcome \in NewShoeOutcomes : StartNewShoeIfNecessary(outcome)

SpecSimulator == InitSimulator /\ [][NextSimulator]_vars

SpecSplitLimits == InitSplitLimits /\ [][NextSimulator]_vars


-----------------------------------------------------------------------------
(* Claims on the Simulator *)

\* C15: a call of any of the fifteen methods in a phase other than the one it
\* is allowed in returns Err and leaves the phase, the shoe, both hands, the
\* bets and the split counters as they were
C15_WrongPhaseIsRejected ==
    [][~last_call'.in_phase =>
          /\ last_call'.result = "Err"
          /\ simulator' = simulator]_vars

\* play_hit was rejected after the dealer peeked a natural
C15_Witness ==
    /\ last_call.op = "play_hit"
    /\ ~last_call.in_phase
    /\ last_call.result = "Err"
    /\ peeked_natural
    /\ simulator.current_game_phase = "DealerPlayAndSummary"

\* the edges of the phases
PhaseEdges ==
    {<<"WaitForPlayerSeat", "PlaceBets">>,
     <<"PlaceBets", "DealInitialCards">>,
     <<"DealInitialCards", "DealerPeek">>,
     <<"DealerPeek", "WaitForRightPlayers">>,
     <<"DealerPeek", "DealerPlayAndSummary">>,
     <<"WaitForRightPlayers", "PlaySplit">>,
     <<"PlaySplit", "Play">>,
     <<"PlaySplit", "WaitForLeftPlayers">>,
     <<"Play", "WaitForLeftPlayers">>,
     <<"WaitForLeftPlayers", "DealerPlayAndSummary">>,
     <<"DealerPlayAndSummary", "StartNewShoe">>,
     <<"StartNewShoe", "WaitForPlayerSeat">>}

PlayerDecisions == {"play_stand", "play_hit", "play_double", "play_surrender"}

\* the round is settled: its dealer_plays_and_summary returned
RoundIsSettled ==
    \/ simulator.current_game_phase = "StartNewShoe"
    \/ simulator.current_game_phase = "WaitForPlayerSeat" /\ rounds > 0

\* C16: the phase changes only along the edges of the spec, where DealerPeek
\* goes to DealerPlayAndSummary only on a peeked natural and PlaySplit goes to
\* WaitForLeftPlayers only after a split of Aces, and Play is left when the
\* last group of the hand is finished; a round is settled by
\* dealer_plays_and_summary exactly once; and no decision of the player is
\* accepted after a peeked natural or after a split of Aces
C16_PhasesFollowTheEdges ==
    /\ [][simulator'.current_game_phase # simulator.current_game_phase =>
            /\ <<simulator.current_game_phase, simulator'.current_game_phase>>
                  \in PhaseEdges
            /\ simulator.current_game_phase = "DealerPeek" =>
                  (simulator'.current_game_phase = "DealerPlayAndSummary"
                      <=> peeked_natural')
            /\ simulator.current_game_phase = "PlaySplit" =>
                  (simulator'.current_game_phase = "WaitForLeftPlayers"
                      <=> simulator.current_split_ace_times > 0)
            /\ simulator.current_game_phase = "Play" =>
                  simulator'.current_playing_group_index
                      = Len(simulator'.current_hand)]_vars
    /\ [](settled = IF RoundIsSettled THEN 1 ELSE 0)
    /\ []((peeked_natural \/ simulator.current_split_ace_times > 0) =>
            /\ simulator.current_game_phase # "Play"
            /\ ~(last_call.op \in PlayerDecisions /\ last_call.result = "Ok"))

\* a round in which Aces were split is settled, and one in which the dealer
\* peeked a natural is
C16_Witness ==
    /\ simulator.current_game_phase = "StartNewShoe"
    /\ settled = 1
    /\ simulator.current_split_ace_times = 1
    /\ Len(simulator.current_hand) = 2

C16_WitnessNatural ==
    /\ simulator.current_game_phase = "StartNewShoe"
    /\ settled = 1
    /\ peeked_natural

\* C17: in the phase WaitForPlayerSeat seat_player(0, 0) returns Ok, moves to
\* PlaceBets with a fresh round and leaves number_of_players and seat_order
\* as they were
C17_TwoZerosKeepTheSeat ==
    [][(/\ last_call'.op = "seat_player"
        /\ last_call'.args = <<0, 0>>
        /\ last_call'.in_phase) =>
          /\ last_call'.result = "Ok"
          /\ simulator' = new_game([simulator EXCEPT
                                      !.current_game_phase = "PlaceBets"])]_vars

\* seat_player(0, 0) returned Err in the phase WaitForPlayerSeat and the
\* simulator is still there
C17_TwoZerosRejected ==
    /\ last_call.op = "seat_player"
    /\ last_call.args = <<0, 0>>
    /\ last_call.in_phase
    /\ last_call.result = "Err"
    /\ simulator.current_game_phase = "WaitForPlayerSeat"


-----------------------------------------------------------------------------
(* Claims on the hit pass of multithreading_calculate_stand_hit_expectation *)

\* the order in which the hit pass takes the pairs
HitOrder == hit_pass_order(valid_pairs)

\* the one-card-larger hands whose table entry the hit pass reads for the
\* pair: get_max_expectation answers for a bust hand and for a charlie
\* without a look at the table
HandsRead(pair) ==
    { add_card(pair.hand, card) :
        card \in { c \in CardValues :
                     /\ pair.shoe.counts[c] > 0
                     /\ ~bust(add_card(pair.hand, c))
                     /\ get_total(add_card(pair.hand, c)) < rule.charlie_number } }

\* C20: the hit pass starts only when the main thread is through its own
\* partition and every worker is joined; it takes the hands from the highest
\* card count to the lowest, so each one-card-larger hand it reads was taken
\* before the hand that reads it; and the pass writes no stand value
C20_HitPassReadsFinalValues ==
    /\ [](pc = "hit" =>
            /\ main_next > Len(dispatched_hands[1])
            /\ joined = Len(threads)
            /\ \A t \in 1..Len(threads) : threads[t].status # "running"
            /\ \A k \in 1..Len(HitOrder) :
                  /\ k > 1 => get_total(HitOrder[k - 1].hand)
                                 >= get_total(HitOrder[k].hand)
                  /\ \A hand \in HandsRead(HitOrder[k]) :
                        \E j \in 1..(k - 1) : HitOrder[j].hand = hand)
    /\ [][pc = "hit" =>
            \A k \in 1..Len(HitOrder) :
                contains_state(ex_stand_hit, HitOrder[k].hand) =>
                    StateAt(ex_stand_hit', HitOrder[k].hand).stand
                        = StateAt(ex_stand_hit, HitOrder[k].hand).stand]_vars

\* the pass ended after two workers were joined, and a hand of two cards got
\* its hit value from a hand of three cards whose own hit value was computed
C20_Witness ==
    /\ pc = "done"
    /\ joined = 2
    /\ \E k \in 1..Len(HitOrder) :
          /\ get_total(HitOrder[k].hand) = 2
          /\ StateAt(ex_stand_hit, HitOrder[k].hand).hit # F64(0)
          /\ \E hand \in HandsRead(HitOrder[k]) :
                StateAt(ex_stand_hit, hand).hit # F64(0)

-----------------------------------------------------------------------------
(* calculation.rs: calculate_expectations, called on one initial situation *)
(* and called pair after pair on the table of one dealer up card           *)

\* the loop `for third_card in 1..=10` of calculate_expectations; it reads
\* the table through Index, which panics on a key that is absent
RECURSIVE third_card_loop(_, _, _, _, _)
third_card_loop(table, given_shoe, impossible, hand, st) ==
    IF st.card > 10 \/ st.panicked THEN st
    ELSE LET next_hand == add_card(hand, st.card)
             p == get_card_probability(given_shoe, impossible, st.card)
         IN  third_card_loop(table, given_shoe, impossible, hand,
                IF ~contains_state(table, next_hand)
                THEN [st EXCEPT !.panicked = TRUE]
                ELSE [card      |-> st.card + 1,
                      ex_double |-> FAdd(st.ex_double,
                                      FMul(p, StateAt(table, next_hand).stand)),
                      panicked  |-> FALSE])

\* calculate_expectations with number_of_threads <= 1, once the stand/hit
\* table is filled: the Double expectation and the best of the decisions
expectations_of_other_decisions(r, up_card, given_shoe, hand, memo) ==
    LET impossible == get_impossible_dealer_hole_card(r, up_card)
        Outcome(status, third_card, ex_double) ==
            [table |-> memo.table, status |-> status,
             third_card |-> third_card, ex_double |-> ex_double]
    IN  IF memo.panicked THEN Outcome("panic_stand_hit", 0, NaN)
        ELSE IF is_natural(hand) THEN Outcome("Ok", 0, NegInf)
        ELSE CHOOSE out \in
                { IF doubled.panicked
                  THEN Outcome("panic_double", doubled.card, NaN)
                  ELSE Outcome("Ok", 0, FMul(doubled.ex_double, F64(2))) :
                  doubled \in { third_card_loop(memo.table, given_shoe,
                                    impossible, hand,
                                    [card |-> 1, ex_double |-> F64(0),
                                     panicked |-> FALSE]) } } : TRUE

\* calculate_expectations with number_of_threads <= 1
calculate_expectations(r, up_card, hand_cards, given_shoe, table) ==
    LET hand == add_card(add_card(with_number_of_decks(0), hand_cards[1]),
                         hand_cards[2])
    IN  CHOOSE out \in
            { expectations_of_other_decisions(r, up_card, given_shoe, hand, memo) :
              memo \in { memoization_calculate_stand_hit_expectation(r, up_card,
                            get_impossible_dealer_hole_card(r, up_card),
                            given_shoe, hand,
                            [table |-> table, panicked |-> FALSE]) } } : TRUE

\* a faulty enumeration that leaves the first hand card in the shoe
pair_shoe_keeps_first(given_shoe, hand_cards) ==
    remove_card(given_shoe, hand_cards[2])

\* the shoe calculate_solution_without_initial_situation hands over for a
\* pair: both hand cards are removed from the shoe without the up card
pair_shoe(given_shoe, hand_cards) ==
    remove_card(remove_card(given_shoe, hand_cards[1]), hand_cards[2])

\* the pair after hand_cards in `for first_hand_card in 1..=10 { for
\* second_hand_card in 1..=first_hand_card`
next_pair(hand_cards) ==
    IF hand_cards[2] < hand_cards[1] THEN <<hand_cards[1], hand_cards[2] + 1>>
    ELSE <<hand_cards[1] + 1, 1>>

\* the shoe holds both cards of the pair
can_deal(given_shoe, hand_cards) ==
    /\ given_shoe.counts[hand_cards[1]] > 0
    /\ remove_card(given_shoe, hand_cards[1]).counts[hand_cards[2]] > 0

\* initial situations given to calculate_solution_with_initial_situation:
\* the shoe is the one the caller holds
SituationsWith ==
    { [entry |-> "with", up |-> 10, hand |-> <<2, 2>>, charlie |-> 6,
       shoe |-> <<0, 2, 0, 0, 0, 0, 0, 0, 1, 4>>],
      [entry |-> "with", up |-> 10, hand |-> <<6, 10>>, charlie |-> 6,
       shoe |-> <<0, 0, 0, 0, 2, 0, 0, 0, 0, 3>>],
      [entry |-> "with", up |-> 6, hand |-> <<10, 1>>, charlie |-> 6,
       shoe |-> <<1, 0, 0, 0, 0, 0, 0, 0, 0, 3>>],
      [entry |-> "with", up |-> 10, hand |-> <<3, 2>>, charlie |-> 6,
       shoe |-> <<0, 1, 1, 0, 0, 1, 0, 0, 0, 5>>],
      [entry |-> "with", up |-> 9, hand |-> <<4, 3>>, charlie |-> 5,
       shoe |-> <<1, 1, 0, 0, 0, 0, 0, 1, 1, 3>>],
      [entry |-> "with", up |-> 1, hand |-> <<5, 5>>, charlie |-> 6,
       shoe |-> <<0, 0, 0, 0, 0, 1, 0, 0, 2, 4>>],
      [entry |-> "with", up |-> 10, hand |-> <<1, 1>>, charlie |-> 6,
       shoe |-> <<1, 0, 0, 0, 0, 0, 0, 0, 2, 4>>],
      [entry |-> "with", up |-> 6, hand |-> <<10, 6>>, charlie |-> 6,
       shoe |-> <<0, 0, 0, 0, 0, 0, 0, 0, 0, 5>>] }

\* shoes given to calculate_solution_without_initial_situation, without the
\* dealer up card; hand is the pair before the first one
SituationsWithout ==
    { [entry |-> "without", up |-> 10, hand |-> <<1, 0>>, charlie |-> 6,
       shoe |-> <<2, 0, 0, 0, 2, 0, 0, 0, 0, 3>>],
      [entry |-> "without", up |-> 1, hand |-> <<1, 0>>, charlie |-> 6,
       shoe |-> <<1, 0, 0, 0, 0, 0, 0, 0, 2, 3>>] }

\* a shoe that holds every rank after each of the first three pairs
SituationsEveryRank ==
    { [entry |-> "without", up |-> 10, hand |-> <<1, 0>>, charlie |-> 4,
       shoe |-> <<3, 3, 1, 1, 1, 1, 1, 1, 1, 1>>] }

InitSolve ==
    /\ WalkIdle
    /\ PlayIdle
    /\ OneIdle
    /\ CardIdle
    /\ DealerIdle
    /\ OddsIdle
    /\ DecisionIdle
    /\ BettingIdle
    /\ EngineIdle
    /\ LaterIdle
    /\ \E situation \in SituationsWith \cup SituationsWithout
                            \cup SituationsEveryRank,
          surrender \in BOOLEAN, peek \in PeekPolicy :
          /\ situation \in SituationsEveryRank
                => ~surrender /\ peek = "UpAce"
          /\ rule = [get_typical_rule EXCEPT
                        !.allow_late_surrender = surrender,
                        !.peek_policy = peek,
                        !.charlie_number = situation.charlie]
          /\ dealer_up_card = situation.up
          /\ solve_shoe = CardCountNew(situation.shoe)
          /\ solve_call = [NoSolveCall EXCEPT !.op = situation.entry,
                                              !.hand_cards = situation.hand]
    /\ solve_table = <<>>
    /\ solve_fresh = <<>>

\* the entries of a table that another table holds too
FoundIn(before, table) ==
    { <<k, before[k]>> : k \in DOMAIN before \cap DOMAIN table }

\* calculate_solution_with_initial_situation: calculate_expectations on a
\* new table
CalculateSolutionWithInitialSituation ==
    /\ solve_call.op = "with"
    /\ solve_call.status = "none"
    /\ \E out \in { calculate_expectations(rule, dealer_up_card,
                        solve_call.hand_cards, solve_shoe, <<>>) } :
          /\ solve_table' = out.table
          /\ solve_fresh' = out.table
          /\ solve_call' = [solve_call EXCEPT !.status = out.status,
                                              !.third_card = out.third_card]
    /\ UNCHANGED <<solve_shoe, notSolve>>

\* one pair of calculate_solution_without_initial_situation: the cards are
\* removed, calculate_expectations runs on the table of the dealer up card,
\* the cards are put back; the enumeration is followed up to the first pair
\* the shoe cannot deal
CalculateNextPair ==
    /\ solve_call.op = "without"
    /\ solve_call.status \in {"none", "Ok"}
    /\ next_pair(solve_call.hand_cards)[1] <= 10
    /\ LET hand_cards == next_pair(solve_call.hand_cards)
       IN  IF ~can_deal(solve_shoe, hand_cards)
           THEN /\ solve_call' = [solve_call EXCEPT !.hand_cards = hand_cards,
                                                    !.status = "underflow",
                                                    !.found = {}]
                /\ UNCHANGED <<solve_table, solve_fresh>>
           ELSE \E out \in { calculate_expectations(rule, dealer_up_card,
                                hand_cards, pair_shoe(solve_shoe, hand_cards),
                                solve_table) },
                   fresh \in { calculate_expectations(rule, dealer_up_card,
                                hand_cards, pair_shoe(solve_shoe, hand_cards),
                                <<>>) } :
                   /\ solve_table' = out.table
                   /\ solve_fresh' = fresh.table
                   /\ solve_call' = [solve_call EXCEPT
                                        !.hand_cards = hand_cards,
                                        !.status = out.status,
                                        !.third_card = out.third_card,
                                        !.found = FoundIn(solve_table, fresh.table)]
    /\ UNCHANGED <<solve_shoe, notSolve>>

NextSolve ==
    \/ CalculateSolutionWithInitialSituation
    \/ CalculateNextPair

SpecSolve == InitSolve /\ [][NextSolve]_vars

\* the hand and the shoe of the last call of calculate_expectations
solve_hand ==
    add_card(add_card(with_number_of_decks(0), solve_call.hand_cards[1]),
             solve_call.hand_cards[2])

solve_pair_shoe ==
    IF solve_call.op = "with" THEN solve_shoe
    ELSE pair_shoe(solve_shoe, solve_call.hand_cards)

\* the hands that can be reached from the last pair, each with its shoe
solve_pairs ==
    InOrder(gather_hand_count_states(solve_hand, solve_pair_shoe,
                                     rule.charlie_number, <<>>), 1)

\* the stand/hit table was filled by the last call
TableIsFilled == solve_call.status \in {"Ok", "panic_double"}

\* a hand whose entry holds a hit value
Undecided_hand(table, hand) ==
    /\ contains_state(table, hand)
    /\ ~bust(hand)
    /\ get_total(hand) # rule.charlie_number
    /\ get_actual_sum(hand) # 21

\* the hit value of a hand, computed from the entries of its children as
\* the table holds them now
hit_from_children(table, pair) ==
    LET cleared == [table |-> StatePut(table, pair.hand,
                                [StateAt(table, pair.hand) EXCEPT !.hit = F64(0)]),
                    panicked |-> FALSE]
        summed == hit_card_loop(rule, impossible_dealer_hole_card, pair,
                                [card |-> 1, res |-> cleared])
    IN  StateAt(summed.table, pair.hand).hit

\* C21: an entry of the stand/hit table is final when it is read: the hit
\* value a hand holds is the one its children's entries give at the end of
\* the call, and when one table is used for all pairs of a dealer up card,
\* every entry found in it holds the values a call on an empty table gives
\* for the current pair.
C21_ReadEntriesAreFinal ==
    TableIsFilled =>
        /\ \A e \in solve_call.found : solve_fresh[e[1]] = e[2]
        /\ \A k \in DOMAIN solve_fresh :
              k \in DOMAIN solve_table /\ solve_table[k] = solve_fresh[k]
        /\ \A i \in 1..Len(solve_pairs) :
              Undecided_hand(solve_table, solve_pairs[i].hand) =>
                 StateAt(solve_table, solve_pairs[i].hand).hit
                    = hit_from_children(solve_table, solve_pairs[i])

\* a later pair found entries with computed stand and hit values
C21_Witness ==
    /\ solve_call.op = "without"
    /\ solve_call.status = "Ok"
    /\ \E e \in solve_call.found : e[2].hit # NegInf /\ e[2].stand # NegInf

\* C22: calculate_expectations never reads a state that is missing from the
\* stand/hit table, whatever the shoe and whether the table was empty or
\* used before.
C22_NoMissingState ==
    solve_call.status # "panic_double"

\* the Double loop asked for the hand with a third card of a rank the shoe
\* no longer holds, on an empty table
C22_MissingThirdCard ==
    /\ solve_call.op = "with"
    /\ solve_call.status = "panic_double"
    /\ solve_pair_shoe.counts[solve_call.third_card] = 0
    /\ ~contains_state(solve_table, add_card(solve_hand, solve_call.third_card))

\* the same on the table earlier pairs have filled
C22_MissingThirdCardReused ==
    /\ solve_call.op = "without"
    /\ solve_call.status = "panic_double"
    /\ solve_table # solve_fresh
    /\ solve_pair_shoe.counts[solve_call.third_card] = 0

\* the stand value the comparison with the dealer gives for a hand
stand_from_dealer(pair) ==
    LET stand_odds == calculate_stand_odds(rule, pair.hand, dealer_up_card,
                                           pair.shoe)
    IN  [panicked |-> stand_odds.panicked,
         stand |-> FSub(stand_odds.win, stand_odds.lose)]

\* C25: minus infinity is recorded as the stand value exactly on the hands
\* of at most 11 that do not hold 3 cards, and on each of them the stand
\* value the comparison with the dealer gives does not exceed the hit value
\* of the table; a hand of 3 cards holds the computed stand value.
C25_SkippedStandNeverWins ==
    TableIsFilled =>
        \A i \in 1..Len(solve_pairs) :
            LET pair == solve_pairs[i]
                ex == StateAt(solve_table, pair.hand)
                computed == stand_from_dealer(pair)
            IN  Undecided_hand(solve_table, pair.hand) =>
                  /\ (ex.stand = NegInf) <=>
                        (get_actual_sum(pair.hand) <= 11 /\ get_total(pair.hand) # 3)
                  /\ ex.stand = NegInf /\ ~computed.panicked
                        => ~FLess(ex.hit, computed.stand)
                  /\ get_total(pair.hand) = 3 /\ ~computed.panicked
                        => ex.stand = computed.stand

\* a hand of at most 11 whose stand value is below its hit value, and a
\* hand of 3 cards of at most 11 with a computed stand value
C25_Witness ==
    /\ TableIsFilled
    /\ \E i \in 1..Len(solve_pairs) :
          LET pair == solve_pairs[i]
          IN  /\ Undecided_hand(solve_table, pair.hand)
              /\ StateAt(solve_table, pair.hand).stand = NegInf
              /\ ~stand_from_dealer(pair).panicked
              /\ FLess(stand_from_dealer(pair).stand,
                       StateAt(solve_table, pair.hand).hit)
    /\ \E i \in 1..Len(solve_pairs) :
          LET pair == solve_pairs[i]
          IN  /\ Undecided_hand(solve_table, pair.hand)
              /\ get_total(pair.hand) = 3
              /\ get_actual_sum(pair.hand) <= 11
              /\ StateAt(solve_table, pair.hand).stand # NegInf

-----------------------------------------------------------------------------
(* The recursive computations, one mutation at a time: the player recursion *)
(* of memoization_calculate_stand_hit_expectation and of                    *)
(* gather_hand_count_states_aux, the dealer recursion of                    *)
(* memoization_find_win_lose_odds, and the enumeration of                   *)
(* calculate_solution_without_initial_situation                             *)

WalkKinds == {"memoization", "gather", "dealer", "aggregator"}

\* the call that is running
TopFrame == frames[Len(frames)]

\* a call as it is entered: the loop it will run (none when first > last),
\* and the working shoe and hand at its entry
Frame(first, last) ==
    [card |-> first, last |-> last, shoe |-> work_shoe', hand |-> work_hand']

\* the loop of a call entered with this hand and shoe: <<first, last>>
loop_of(kind, cur_hand, cur_shoe, keys, depth, start) ==
    IF kind = "memoization"
    THEN (IF cur_hand.hash_value \in keys \/ bust(cur_hand)
             \/ get_total(cur_hand) = rule.charlie_number
             \/ get_actual_sum(cur_hand) = 21
          THEN <<1, 0>> ELSE <<1, 10>>)
    ELSE IF kind = "gather"
    THEN (IF get_sum(cur_hand) >= 21 \/ get_total(cur_hand) = rule.charlie_number
          THEN <<1, 0>> ELSE <<start, 10>>)
    ELSE IF kind = "dealer"
    THEN (IF cur_hand.hash_value \in keys
             \/ find_win_lose_odds_must_stand(rule, dealer_up_card, cur_hand)
          THEN <<1, 0>>
          ELSE <<next_card_range(rule, dealer_up_card, cur_shoe, cur_hand)[1],
                 next_card_range(rule, dealer_up_card, cur_shoe, cur_hand)[2]>>)
    ELSE \* the enumeration: up card, first card, second card, core logic
         (IF depth <= 2 THEN <<1, 10>>
          ELSE IF depth = 3 THEN <<1, start>>
          ELSE <<1, 0>>)

\* the keys a call adds to its table when it is entered
keys_at_entry(kind, cur_hand, keys) ==
    IF kind = "memoization" THEN keys \cup {cur_hand.hash_value}
    ELSE IF kind = "dealer"
            /\ find_win_lose_odds_must_stand(rule, dealer_up_card, cur_hand)
    THEN keys \cup {cur_hand.hash_value}
    ELSE keys

\* `continue`: the card is not tried
skips(kind, cur_hand, cur_shoe, card) ==
    IF kind \in {"memoization", "gather"} THEN cur_shoe.counts[card] = 0
    ELSE IF kind = "dealer" THEN cur_hand.counts[card] = cur_shoe.counts[card]
    ELSE FALSE

\* the mutation before the recursive call
mutate(kind, work, card) ==
    IF kind \in {"memoization", "gather"}
    THEN [shoe |-> remove_card(work.shoe, card), hand |-> add_card(work.hand, card)]
    ELSE IF kind = "dealer"
    THEN [shoe |-> work.shoe, hand |-> add_card(work.hand, card)]
    ELSE [shoe |-> remove_card(work.shoe, card), hand |-> work.hand]

\* a faulty undo that puts the card back into the shoe and leaves it in the
\* hand as well
undo_shoe_only(kind, work, card) ==
    IF kind = "dealer" THEN work
    ELSE [shoe |-> add_card(work.shoe, card), hand |-> work.hand]

\* the undo after the recursive call
undo(kind, work, card) ==
    IF kind \in {"memoization", "gather"}
    THEN [shoe |-> add_card(work.shoe, card), hand |-> remove_card(work.hand, card)]
    ELSE IF kind = "dealer"
    THEN [shoe |-> work.shoe, hand |-> remove_card(work.hand, card)]
    ELSE [shoe |-> add_card(work.shoe, card), hand |-> work.hand]

\* what the computations are given: a hand of two cards and the shoe it
\* leaves, the dealer's shoe, and the shoe of the betting phase
WalkInputs ==
    { [kind |-> k, hand |-> <<2, 2>>,
       shoe |-> <<0, 2, 0, 0, 0, 0, 0, 0, 1, 4>>] : k \in {"memoization", "gather"} }
    \cup
    { [kind |-> k, hand |-> <<1, 5>>,
       shoe |-> <<2, 1, 0, 0, 1, 0, 0, 0, 0, 2>>] : k \in {"memoization", "gather"} }
    \cup
    { [kind |-> "dealer", hand |-> <<>>,
       shoe |-> <<1, 1, 0, 0, 1, 1, 0, 0, 0, 2>>],
      [kind |-> "aggregator", hand |-> <<>>,
       shoe |-> <<4, 4, 4, 4, 4, 4, 4, 4, 4, 16>>],
      [kind |-> "aggregator", hand |-> <<>>,
       shoe |-> <<0, 4, 4, 4, 4, 4, 4, 4, 4, 15>>] }

RECURSIVE HandOf(_)
HandOf(cards) ==
    IF cards = <<>> THEN with_number_of_decks(0)
    ELSE add_card(HandOf(Tail(cards)), Head(cards))

InitWalk ==
    /\ SolveIdle
    /\ PlayIdle
    /\ OneIdle
    /\ CardIdle
    /\ DealerIdle
    /\ OddsIdle
    /\ DecisionIdle
    /\ BettingIdle
    /\ EngineIdle
    /\ LaterIdle
    /\ \E input \in WalkInputs, checks \in BOOLEAN, peek \in PeekPolicy,
          up_card \in {1, 6, 10} :
          /\ input.kind # "aggregator" => ~checks
          /\ input.kind # "dealer" => peek = "UpAce" /\ up_card = 10
          /\ rule = [get_typical_rule EXCEPT !.peek_policy = peek,
                                             !.number_of_decks = 1]
          /\ dealer_up_card = IF input.kind = "aggregator" THEN 0 ELSE up_card
          /\ walk = [kind |-> input.kind, overflow_checks |-> checks,
                      shoe |-> CardCountNew(input.shoe),
                      hand |-> HandOf(input.hand)]
          /\ work_shoe = CardCountNew(input.shoe)
          /\ work_hand = HandOf(input.hand)
    /\ frames = <<>>
    /\ seen = {}
    /\ last_step = NoStep

Running == last_step.op \notin {"done", "panic"}

\* the first call
EnterWalk ==
    /\ last_step.op = "none"
    /\ UNCHANGED <<work_shoe, work_hand>>
    /\ LET range == loop_of(walk.kind, work_hand, work_shoe, seen, 1, 1)
       IN  frames' = <<Frame(range[1], range[2])>>
    /\ seen' = keys_at_entry(walk.kind, work_hand, seen)
    /\ last_step' = [NoStep EXCEPT !.op = "enter"]
    /\ UNCHANGED <<walk, notWalk>>

\* `continue`
SkipCard ==
    /\ Running
    /\ frames # <<>>
    /\ TopFrame.card <= TopFrame.last
    /\ skips(walk.kind, work_hand, work_shoe, TopFrame.card)
    /\ frames' = [frames EXCEPT ![Len(frames)].card = @ + 1]
    /\ last_step' = [op |-> "skip", card |-> TopFrame.card,
                     count_before |-> work_shoe.counts[TopFrame.card]]
    /\ UNCHANGED <<walk, work_shoe, work_hand, seen, notWalk>>

\* the mutation and the recursive call; with overflow checks the removal of
\* a card the shoe does not hold panics
MutateAndCall ==
    /\ Running
    /\ frames # <<>>
    /\ TopFrame.card <= TopFrame.last
    /\ ~skips(walk.kind, work_hand, work_shoe, TopFrame.card)
    /\ LET card == TopFrame.card
           next == mutate(walk.kind, [shoe |-> work_shoe, hand |-> work_hand], card)
           range == loop_of(walk.kind, next.hand, next.shoe, seen,
                            Len(frames) + 1, card)
       IN  IF walk.kind = "aggregator" /\ walk.overflow_checks
              /\ work_shoe.counts[card] = 0
           THEN /\ last_step' = [op |-> "panic", card |-> card, count_before |-> 0]
                /\ UNCHANGED <<work_shoe, work_hand, frames, seen>>
           ELSE /\ work_shoe' = next.shoe
                /\ work_hand' = next.hand
                /\ frames' = Append(frames, Frame(range[1], range[2]))
                /\ seen' = keys_at_entry(walk.kind, next.hand, seen)
                /\ last_step' = [op |-> "mutate", card |-> card,
                                 count_before |-> work_shoe.counts[card]]
    /\ UNCHANGED <<walk, notWalk>>

\* the call returns and its caller undoes the mutation
ReturnAndUndo ==
    /\ Running
    /\ Len(frames) >= 2
    /\ TopFrame.card > TopFrame.last
    /\ LET caller == frames[Len(frames) - 1]
           back == undo(walk.kind, [shoe |-> work_shoe, hand |-> work_hand],
                        caller.card)
       IN  /\ work_shoe' = back.shoe
           /\ work_hand' = back.hand
           /\ frames' = [SubSeq(frames, 1, Len(frames) - 1)
                            EXCEPT ![Len(frames) - 1].card = @ + 1]
           /\ seen' = IF walk.kind = "dealer"
                      THEN seen \cup {back.hand.hash_value} ELSE seen
           /\ last_step' = [op |-> "undo", card |-> caller.card,
                            count_before |-> work_shoe.counts[caller.card]]
    /\ UNCHANGED <<walk, notWalk>>

\* calculate_expectations, called for a pair, panics on a shoe that lacks a
\* rank
CoreLogicPanics ==
    /\ Running
    /\ walk.kind = "aggregator"
    /\ Len(frames) = 4
    /\ \E card_value \in CardValues : work_shoe.counts[card_value] = 0
    /\ last_step' = [op |-> "panic", card |-> 0, count_before |-> 0]
    /\ UNCHANGED <<walk, work_shoe, work_hand, frames, seen, notWalk>>

\* the first call returns
ReturnFromWalk ==
    /\ Running
    /\ Len(frames) = 1
    /\ TopFrame.card > TopFrame.last
    /\ frames' = <<>>
    /\ last_step' = [NoStep EXCEPT !.op = "done"]
    /\ UNCHANGED <<walk, work_shoe, work_hand, seen, notWalk>>

NextWalk ==
    \/ EnterWalk
    \/ SkipCard
    \/ MutateAndCall
    \/ ReturnAndUndo
    \/ CoreLogicPanics
    \/ ReturnFromWalk

SpecWalk == InitWalk /\ [][NextWalk]_vars

\* C27: every recursive computation follows mutate, recurse, undo: between
\* two steps of a call the working shoe and hand equal, count for count,
\* the ones the call was entered with, the first call returns with the shoe
\* and the hand it was given, and in the player recursion the hand plus the
\* shoe always equals the initial hand plus the initial shoe.
C27_MutateRecurseUndo ==
    /\ frames # <<>> =>
          work_shoe = TopFrame.shoe /\ work_hand = TopFrame.hand
    /\ last_step.op = "done" =>
          work_shoe = walk.shoe /\ work_hand = walk.hand
    /\ walk.kind \in {"memoization", "gather"} =>
          AddCounts(work_hand.counts, work_shoe.counts, 1)
             = AddCounts(walk.hand.counts, walk.shoe.counts, 1)

\* a player recursion that went four cards deep and has returned
C27_Witness ==
    /\ walk.kind = "memoization"
    /\ last_step.op = "done"
    /\ \E k \in seen : k = HandOf(<<2, 2, 2, 2, 9, 10>>).hash_value

\* C23: the enumeration removes a card from the working shoe only when the
\* count of its rank is positive, for every shoe it is given.
C23_RemovesOnlyHeldCards ==
    walk.kind = "aggregator" /\ last_step.op \in {"mutate", "panic"}
        /\ last_step.card # 0
        => last_step.count_before > 0

\* the enumeration removed an Ace from a shoe without Aces, and the count
\* of the rank has wrapped
C23_RemovesFromExhaustedRank ==
    /\ walk.kind = "aggregator"
    /\ ~walk.overflow_checks
    /\ walk.shoe.counts[1] = 0
    /\ last_step = [op |-> "mutate", card |-> 1, count_before |-> 0]
    /\ work_shoe.counts[1] = Radix - 1

-----------------------------------------------------------------------------
(* calculation2/dealer_ex.rs: DealerPlay, the dealer's final totals *)

\* DealerHandValueProbability::default(); probabilities_prefix_sum[k] of the
\* code is element k + 1
DefaultProbability == [i \in 1..6 |-> F64(0)]

\* DealerHandValueProbability::end_with_bust
end_with_bust(prefix_sum) == [i \in 1..6 |-> F64(1)]

\* DealerHandValueProbability::end_with_normal
end_with_normal(prefix_sum, dealer_actual_sum) ==
    [i \in 1..6 |-> IF i - 1 >= dealer_actual_sum - 16 THEN F64(1)
                    ELSE prefix_sum[i]]

\* DealerHandValueProbability::end_with_natural
end_with_natural(prefix_sum) == prefix_sum

\* DealerHandValueProbability::add_assign_with_p
add_assign_with_p(prefix_sum, rhs, q) ==
    [i \in 1..6 |-> FAdd(prefix_sum[i], FMul(rhs[i], q))]

\* DealerPlay::new, memoization_functions: the const parameter
\* IMPOSSIBLE_DEALER_HOLE_CARD of the function chosen for an up card
memoization_function(r, up_card) ==
    IF up_card = 1
    THEN (IF r.peek_policy \in {"UpAce", "UpAceOrTen"} THEN 10 ELSE 0)
    ELSE IF up_card = 10
    THEN (IF r.peek_policy = "UpAceOrTen" THEN 1 ELSE 0)
    ELSE 0

\* a recursion that hands its own const parameter on to the next draw
next_draw_impossible_kept(impossible) == impossible

\* the const parameter of the recursive call,
\* `Self::memoization_dealer_gets_cards::<0>`
next_draw_impossible(impossible) == 0

\* (next_card_min, next_card_max) of memoization_dealer_gets_cards
dealer_card_range(impossible) ==
    IF impossible = 0 THEN <<1, 10>>
    ELSE IF impossible = 1 THEN <<2, 10>>
    ELSE <<1, 9>>

\* current_valid_shoe_total of memoization_dealer_gets_cards
current_valid_shoe_total(impossible, dealer_plus_shoe, dealer_cards) ==
    LET impossible_card_number ==
            IF impossible = 0 THEN 0
            ELSE U16(dealer_plus_shoe.counts[impossible] + Radix
                        - dealer_cards.counts[impossible])
    IN  U16(U16(get_total(dealer_plus_shoe) + Radix - get_total(dealer_cards))
               + Radix - impossible_card_number)

RECURSIVE memoization_dealer_gets_cards(_, _, _, _, _)
RECURSIVE dealer_gets_cards_loop(_, _, _, _, _)

\* the loop `for card_value in next_card_min..=next_card_max`
dealer_gets_cards_loop(impossible, r, dealer_plus_shoe, dealer_cards, st) ==
    IF st.card > dealer_card_range(impossible)[2] THEN st.odd
    ELSE IF dealer_cards.counts[st.card] = dealer_plus_shoe.counts[st.card]
    THEN dealer_gets_cards_loop(impossible, r, dealer_plus_shoe, dealer_cards,
            [card |-> st.card + 1, odd |-> st.odd])
    ELSE LET drawn == add_card(dealer_cards, st.card)
             sub == memoization_dealer_gets_cards(next_draw_impossible(impossible),
                        r, dealer_plus_shoe, drawn, st.odd)
             back == remove_card(drawn, st.card)
             target_cards_in_shoe ==
                 U16(dealer_plus_shoe.counts[st.card] + Radix
                        - back.counts[st.card])
             q == Frac(target_cards_in_shoe,
                       current_valid_shoe_total(impossible, dealer_plus_shoe, back))
             entry == StateAt(sub, back)
         IN  dealer_gets_cards_loop(impossible, r, dealer_plus_shoe, dealer_cards,
                [card |-> st.card + 1,
                 odd  |-> StatePut(sub, back,
                            [entry EXCEPT
                               !.prefix_sum = add_assign_with_p(@,
                                                StateAt(sub, drawn).prefix_sum, q),
                               !.cards = @ \cup {st.card}])])

\* DealerPlay::memoization_dealer_gets_cards
memoization_dealer_gets_cards(impossible, r, dealer_plus_shoe, dealer_cards, odd) ==
    IF contains_state(odd, dealer_cards) THEN odd
    ELSE LET actual_sum == get_actual_sum(dealer_cards)
             Put(prefix_sum, denominator) ==
                StatePut(odd, dealer_cards,
                    [prefix_sum |-> prefix_sum, hand |-> dealer_cards,
                     cards |-> {}, valid_total |-> denominator,
                     must_hit |-> denominator >= 0])
         IN  IF bust(dealer_cards)
             THEN Put(end_with_bust(DefaultProbability), -1)
             ELSE IF actual_sum > 17
             THEN (IF is_natural(dealer_cards)
                   THEN Put(end_with_bust(DefaultProbability), -1)
                   ELSE Put(end_with_normal(DefaultProbability, actual_sum), -1))
             ELSE IF actual_sum = 17
                     /\ (~is_soft(dealer_cards) \/ ~r.dealer_hit_on_soft17)
             THEN Put(end_with_normal(DefaultProbability, 17), -1)
             ELSE dealer_gets_cards_loop(impossible, r, dealer_plus_shoe,
                    dealer_cards,
                    [card |-> dealer_card_range(impossible)[1],
                     odd  |-> Put(DefaultProbability,
                                  current_valid_shoe_total(impossible,
                                      dealer_plus_shoe, dealer_cards))])

\* DealerPlay::update_dealer_odd
RECURSIVE update_dealer_odd(_, _, _, _)
update_dealer_odd(r, dealer_plus_shoe, up_card, odd) ==
    IF up_card > 10 THEN odd
    ELSE IF dealer_plus_shoe.counts[up_card] = 0
    THEN update_dealer_odd(r, dealer_plus_shoe, up_card + 1, odd)
    ELSE update_dealer_odd(r, dealer_plus_shoe, up_card + 1,
            memoization_dealer_gets_cards(memoization_function(r, up_card), r,
                dealer_plus_shoe, add_card(with_number_of_decks(0), up_card),
                odd))

\* the dealer's cards together with the shoe
DealerPlusShoes ==
    { <<1, 0, 0, 0, 0, 1, 0, 0, 0, 3>>, <<2, 1, 0, 0, 1, 0, 0, 0, 0, 2>>,
      <<1, 1, 1, 0, 0, 1, 0, 0, 0, 2>>, <<0, 0, 0, 0, 2, 2, 0, 0, 0, 3>>,
      <<1, 0, 0, 0, 0, 0, 2, 0, 1, 2>>, <<2, 0, 0, 1, 0, 0, 0, 1, 0, 2>>,
      <<1, 2, 0, 0, 0, 1, 0, 0, 0, 4>>, <<0, 1, 1, 1, 1, 1, 0, 0, 0, 2>>,
      <<1, 0, 0, 0, 0, 0, 0, 0, 0, 4>>, <<0, 0, 0, 0, 0, 3, 0, 0, 0, 6>> }

InitPlay ==
    /\ SolveIdle
    /\ WalkIdle
    /\ OneIdle
    /\ CardIdle
    /\ DealerIdle
    /\ OddsIdle
    /\ DecisionIdle
    /\ BettingIdle
    /\ EngineIdle
    /\ LaterIdle
    /\ dealer_up_card = 0
    /\ \E peek \in PeekPolicy, hit17 \in BOOLEAN :
          rule = [get_typical_rule EXCEPT !.peek_policy = peek,
                                          !.dealer_hit_on_soft17 = hit17]
    /\ \E counts \in DealerPlusShoes : play_shoe = CardCountNew(counts)
    /\ play_odd = <<>>

\* DealerPlay::update_dealer_odd on an odd that was cleared
UpdateDealerOdd ==
    /\ play_odd = <<>>
    /\ play_odd' = update_dealer_odd(rule, play_shoe, 1, <<>>)
    /\ UNCHANGED <<play_shoe, notPlay>>

NextPlay == UpdateDealerOdd

SpecPlay == InitPlay /\ [][NextPlay]_vars

\* the rank the peek rules out as hole card under an up card: a ten under an
\* Ace when the dealer peeks, an Ace under a ten when she also peeks on tens
PeekExcludes(r, up_card) ==
    IF up_card = 1 /\ r.peek_policy # "NoPeek" THEN 10
    ELSE IF up_card = 10 /\ r.peek_policy = "UpAceOrTen" THEN 1
    ELSE 0

\* the only rank of a hand of one card
OnlyCard(hand) == CHOOSE c \in 1..10 : hand.counts[c] = 1

\* the rank left out at a draw: none once the dealer holds a card beyond the
\* up card
LeftOut(r, up_card, beyond_up_card) ==
    IF beyond_up_card = 0 THEN PeekExcludes(r, up_card) ELSE 0

\* the ranks that may be drawn and the number of cards that may be drawn
Candidates(whole, held, left_out) ==
    {c \in 1..10 : c # left_out /\ whole.counts[c] > held.counts[c]}

RECURSIVE CardsOf(_, _, _)
CardsOf(whole, held, ranks) ==
    IF ranks = {} THEN 0
    ELSE LET c == CHOOSE x \in ranks : TRUE
         IN  whole.counts[c] - held.counts[c]
                + CardsOf(whole, held, ranks \ {c})

\* the entries of the dealer table whose state drew a card
DrawingStates == {k \in DOMAIN play_odd : play_odd[k].must_hit}

\* C24: in both dealer traversals the rank the peek rules out is left out of
\* the candidate ranks and of the denominator only while the dealer holds
\* nothing beyond the up card; on every later draw every rank with a card
\* left is a candidate and the denominator is the number of cards left.
C24_PeekOnlyForHoleCard ==
    \A k \in DrawingStates :
        LET e == play_odd[k]
            left_out == LeftOut(rule, OnlyCard(e.hand), get_total(e.hand) - 1)
            stated == Candidates(play_shoe, e.hand,
                        IF get_total(e.hand) = 1 THEN left_out ELSE 0)
        IN  /\ e.cards = stated
            /\ stated # {} => e.valid_total = CardsOf(play_shoe, e.hand, stated)
            /\ \A up_card \in {c \in 1..10 : e.hand.counts[c] > 0} :
                  LET extra == remove_card(e.hand, up_card)
                      orig == remove_card(play_shoe, up_card)
                      range == next_card_range(rule, up_card, orig, extra)
                      said == Candidates(orig, extra,
                                LeftOut(rule, up_card, get_total(extra)))
                  IN  /\ {c \in range[1]..range[2] :
                             extra.counts[c] # orig.counts[c]} = said
                      /\ said # {} => range[3] = CardsOf(orig, extra, said)

\* under an Ace the hole card was drawn without the tens that were left, and
\* the hand Ace, six then drew with the tens and all cards left
C24_Witness ==
    /\ rule.peek_policy = "UpAce"
    /\ play_shoe.counts = <<2, 1, 0, 0, 1, 0, 0, 0, 0, 2>>
    /\ \E k \in DrawingStates :
          /\ play_odd[k].hand.counts = <<1, 0, 0, 0, 0, 0, 0, 0, 0, 0>>
          /\ play_odd[k].cards = {1, 2, 5}
          /\ play_odd[k].valid_total = 3
    /\ \E k \in DrawingStates :
          /\ play_odd[k].hand.counts = <<1, 0, 0, 0, 1, 0, 0, 0, 0, 0>>
          /\ play_odd[k].cards = {1, 2, 10}
          /\ play_odd[k].valid_total = 4

\* how the dealer finishes from a hand, by the rules of the game: element 1
\* bust, elements 2..6 the totals 17..21, element 7 a natural, element 8 no
\* card left to draw
Finish(i) == [j \in 1..8 |-> IF j = i THEN F64(1) ELSE F64(0)]

RECURSIVE dealer_finishes(_, _, _)
RECURSIVE finishes_over(_, _, _, _, _)

finishes_over(r, whole, hand, ranks, cards_left) ==
    IF ranks = {} THEN [j \in 1..8 |-> F64(0)]
    ELSE LET c == CHOOSE x \in ranks : TRUE
         IN  \* one evaluation of each branch
             CHOOSE out \in
                { [j \in 1..8 |-> FAdd(pair[1][j],
                     FMul(pair[2][j],
                          Frac(whole.counts[c] - hand.counts[c], cards_left)))] :
                  pair \in { <<finishes_over(r, whole, hand, ranks \ {c},
                                             cards_left),
                               dealer_finishes(r, whole, add_card(hand, c))>> } } :
                TRUE

dealer_finishes(r, whole, hand) ==
    IF bust(hand) THEN Finish(1)
    ELSE IF is_natural(hand) THEN Finish(7)
    ELSE IF get_actual_sum(hand) > 17
            \/ (get_actual_sum(hand) = 17
                  /\ (~is_soft(hand) \/ ~r.dealer_hit_on_soft17))
    THEN Finish(get_actual_sum(hand) - 15)
    ELSE LET ranks == Candidates(whole, hand,
                        IF get_total(hand) = 1
                        THEN PeekExcludes(r, OnlyCard(hand)) ELSE 0)
         IN  IF ranks = {} THEN Finish(8)
             ELSE finishes_over(r, whole, hand, ranks,
                                CardsOf(whole, hand, ranks))

RECURSIVE SumUpTo(_, _)
SumUpTo(v, n) == IF n = 0 THEN F64(0) ELSE FAdd(SumUpTo(v, n - 1), v[n])

\* the three readings of probabilities_prefix_sum at one state
reads_as_documented(prefix_sum, finish) ==
    /\ prefix_sum[1] = finish[1]
    /\ \A n \in 1..5 : prefix_sum[n + 1] = SumUpTo(finish, n + 1)
    /\ FSub(F64(1), prefix_sum[6]) = finish[7]

\* C30: at every state of the dealer table from which the dealer can finish
\* her hand, probabilities_prefix_sum[0] is the probability of a bust, entry
\* n for n in 1..5 the probability of a bust or a total of at most 16 + n,
\* and 1 minus entry 5 the probability of a natural.
C30_PrefixSumsOfFinalTotals ==
    \A k \in DOMAIN play_odd :
        LET finish == dealer_finishes(rule, play_shoe, play_odd[k].hand)
        IN  finish[8] = F64(0)
               => reads_as_documented(play_odd[k].prefix_sum, finish)

\* a natural is recorded as a bust: the state Ace, ten holds 1 in every
\* entry, and under a ten that was not peeked the Ace as hole card counts
\* as a bust, so that 1 minus entry 5 is 0 where a natural has probability
\* one in four
C30_NaturalRecordedAsBust ==
    /\ rule.peek_policy = "NoPeek"
    /\ play_shoe.counts = <<1, 0, 0, 0, 0, 0, 0, 0, 0, 4>>
    /\ \E k \in DOMAIN play_odd :
          /\ is_natural(play_odd[k].hand)
          /\ play_odd[k].prefix_sum = [i \in 1..6 |-> F64(1)]
    /\ \E k \in DOMAIN play_odd :
          /\ play_odd[k].hand.counts = <<0, 0, 0, 0, 0, 0, 0, 0, 0, 1>>
          /\ dealer_finishes(rule, play_shoe, play_odd[k].hand)[7] = Frac(1, 4)
          /\ play_odd[k].prefix_sum[1] = Frac(1, 4)
          /\ FSub(F64(1), play_odd[k].prefix_sum[6]) = F64(0)

\* away from naturals the entries read as documented
C30_WithoutNatural ==
    \A k \in DOMAIN play_odd :
        LET finish == dealer_finishes(rule, play_shoe, play_odd[k].hand)
        IN  finish[8] = F64(0) /\ finish[7] = F64(0)
               => reads_as_documented(play_odd[k].prefix_sum, finish)

-----------------------------------------------------------------------------
(* calculation/split_ex.rs: the value of one hand of a split pair *)

\* DealerHandValueProbability::p_worse_than_player (prefix_sum[k] of the code
\* is element k + 1; a sum above 21 panics and is not passed)
p_worse_than_player(prefix_sum, player_actual_sum) ==
    IF player_actual_sum <= 17 THEN prefix_sum[1]
    ELSE prefix_sum[player_actual_sum - 17 + 1]

\* DealerHandValueProbability::p_better_than_player
p_better_than_player(prefix_sum, player_actual_sum) ==
    IF player_actual_sum <= 16 THEN FSub(F64(1), prefix_sum[1])
    ELSE FSub(F64(1), prefix_sum[player_actual_sum - 16 + 1])

\* a resolution in which the tag Double doubles every outcome
calculate_expectation_for_one_hand_doubling(r, hand_cards, hand_state, dealer_odds) ==
    IF hand_state = 2 THEN Frac(-1, 2)
    ELSE LET stake == IF hand_state = 3 THEN F64(2) ELSE F64(1)
         IN  IF bust(hand_cards) THEN FMul(F64(-1), stake)
             ELSE IF get_total(hand_cards) = r.charlie_number THEN stake
             ELSE FMul(FSub(p_worse_than_player(dealer_odds, get_actual_sum(hand_cards)),
                            p_better_than_player(dealer_odds, get_actual_sum(hand_cards))),
                       stake)

\* calculate_expectation_for_one_hand; hand_state is 1 for Normal, 2 for
\* Surrender, 3 for Double
calculate_expectation_for_one_hand(r, hand_cards, hand_state, dealer_odds) ==
    IF hand_state = 2 THEN Frac(-1, 2)
    ELSE IF bust(hand_cards) THEN F64(-1)
    ELSE IF get_total(hand_cards) = r.charlie_number THEN F64(1)
    ELSE LET player_actual_sum == get_actual_sum(hand_cards)
             p_win == p_worse_than_player(dealer_odds, player_actual_sum)
             p_lose == p_better_than_player(dealer_odds, player_actual_sum)
             ret == FSub(p_win, p_lose)
         IN  IF hand_state = 3 THEN FMul(ret, F64(2)) ELSE ret

\* hands of one half of a split pair
OneHands ==
    { <<10, 6, 10>>, <<10, 2, 10>>, <<5, 6, 10>>, <<10, 7>>, <<1, 7>>,
      <<1, 7, 2>>, <<8, 3, 5>>, <<9, 9, 1>>, <<2, 3, 2, 3, 2>>,
      <<2, 2, 10, 9>> }

\* prefix sums of dealer distributions
DealerOdds ==
    { <<Frac(1, 4), Frac(1, 2), Frac(5, 8), Frac(3, 4), Frac(7, 8), F64(1)>>,
      <<F64(0), F64(0), F64(0), Frac(1, 2), Frac(1, 2), F64(1)>>,
      <<Frac(2, 5), Frac(2, 5), Frac(3, 5), Frac(3, 5), Frac(4, 5),
        Frac(9, 10)>> }

InitOne ==
    /\ SolveIdle
    /\ WalkIdle
    /\ PlayIdle
    /\ CardIdle
    /\ DealerIdle
    /\ OddsIdle
    /\ DecisionIdle
    /\ BettingIdle
    /\ EngineIdle
    /\ LaterIdle
    /\ dealer_up_card = 0
    /\ \E charlie \in {5, 6} :
          rule = [get_typical_rule EXCEPT !.charlie_number = charlie]
    /\ \E cards \in OneHands, prefix_sum \in DealerOdds :
          one_hand = [hand_cards |-> HandOf(cards), dealer_odds |-> prefix_sum]
    /\ one_ex = <<>>

\* one call of calculate_expectation_for_one_hand; the tag Double is given
\* to hands of three cards only
CalculateExpectationForOneHand ==
    \E hand_state \in 1..3 :
        /\ hand_state \notin DOMAIN one_ex
        /\ hand_state = 3 => get_total(one_hand.hand_cards) = 3
        /\ one_ex' = [t \in DOMAIN one_ex \cup {hand_state} |->
                        IF t = hand_state
                        THEN calculate_expectation_for_one_hand(rule,
                                one_hand.hand_cards, hand_state,
                                one_hand.dealer_odds)
                        ELSE one_ex[t]]
        /\ UNCHANGED <<one_hand, notOne>>

NextOne == CalculateExpectationForOneHand

SpecOne == InitOne /\ [][NextOne]_vars

\* C26: a hand resolved with tag Double is worth exactly twice what the
\* same cards are worth with tag Normal against the same dealer
\* distribution, a doubled hand that busts included (minus 2), and a hand
\* with tag Surrender is worth minus 0.5.
C26_DoubleIsTwiceNormal ==
    /\ 2 \in DOMAIN one_ex => one_ex[2] = Frac(-1, 2)
    /\ {1, 3} \subseteq DOMAIN one_ex
          => one_ex[3] = FMul(F64(2), one_ex[1])

\* the hand ten, six, ten was resolved with both tags and is worth minus 1
\* with tag Double as with tag Normal
C26_DoubledBustLosesOneUnit ==
    /\ one_hand.hand_cards = HandOf(<<10, 6, 10>>)
    /\ {1, 3} \subseteq DOMAIN one_ex
    /\ one_ex[1] = F64(-1)
    /\ one_ex[3] = F64(-1)

\* a doubled hand that does not bust is worth twice the hand with tag
\* Normal, and a surrendered hand minus 0.5
C26_TwiceUnlessBust ==
    /\ 2 \in DOMAIN one_ex => one_ex[2] = Frac(-1, 2)
    /\ {1, 3} \subseteq DOMAIN one_ex /\ ~bust(one_hand.hand_cards)
          => one_ex[3] = FMul(F64(2), one_ex[1])

-----------------------------------------------------------------------------
(* Claims on the split limits and on the events of an automatic round *)

\* the group holds two cards of equal value
IsPair(s, group_index) ==
    /\ group_index < Len(s.current_hand)
    /\ Len(s.current_hand[group_index + 1].cards) = 2
    /\ blackjack_value(s.current_hand[group_index + 1].cards[1])
          = blackjack_value(s.current_hand[group_index + 1].cards[2])

\* the limit that applies to the pair of the group has not been reached
WithinLimits(s, group_index) ==
    /\ s.current_split_all_times < s.rule.split_all_limits
    /\ blackjack_value(s.current_hand[group_index + 1].cards[1]) = 1
          => s.current_split_ace_times < s.rule.split_ace_limits

C28_WithBothLimitsOne ==
    [][\A group_index \in GroupIndexArguments :
          /\ PlaySplit(group_index)
          /\ simulator.current_game_phase = "PlaySplit"
          /\ IsPair(simulator, group_index)
          /\ simulator.rule.split_ace_limits = 1
          => IF WithinLimits(simulator, group_index)
             THEN last_call'.result = "Ok"
             ELSE last_call'.result = "Err" /\ simulator' = simulator]_vars

\* the events between the deal (and the insurance) and the summary
MiddleEvents(events, first) ==
    IF Len(events) - 1 < first THEN <<>>
    ELSE SubSeq(events, first, Len(events) - 1)

Times(events, event) ==
    Cardinality({i \in 1..Len(events) : events[i] = event})

AutoReturnedOk ==
    /\ last_call.op = "automatic_simulate_with_fixed_main_bet"
    /\ last_call.result = "Ok"

\* C29: when automatic_simulate_with_fixed_main_bet returns Ok the handler
\* received on_game_begin, on_bet_money and on_deal_cards in this order,
\* then on_buy_insurance exactly when the dealer peeks under her up card,
\* then on_game_early_end and nothing else exactly when she peeked a
\* natural, otherwise split and decision events only, and on_summary_game
\* last and once; the simulator is in the phase WaitForPlayerSeat.
C29_EventsInOrder ==
    AutoReturnedOk =>
        LET events == auto.events
            peeks == dealer_will_peek(simulator)
            middle == MiddleEvents(events, IF peeks THEN 5 ELSE 4)
        IN  /\ Len(events) >= 4
            /\ SubSeq(events, 1, 3)
                  = <<"on_game_begin", "on_bet_money", "on_deal_cards">>
            /\ peeks <=> events[4] = "on_buy_insurance"
            /\ Times(events, "on_buy_insurance") = (IF peeks THEN 1 ELSE 0)
            /\ \A event \in {"on_game_begin", "on_bet_money", "on_deal_cards",
                             "on_summary_game"} : Times(events, event) = 1
            /\ events[Len(events)] = "on_summary_game"
            /\ IF peeked_natural
               THEN middle = <<"on_game_early_end">>
               ELSE \A i \in 1..Len(middle) :
                       middle[i] \in {"on_split", "on_make_decision",
                                      "on_player_bust", "on_player_charlie"}
            /\ simulator.current_game_phase = "WaitForPlayerSeat"

\* an automatic round returned Ok after the dealer peeked a natural
C29_WitnessEarlyEnd ==
    /\ AutoReturnedOk
    /\ peeked_natural
    /\ auto.events = <<"on_game_begin", "on_bet_money", "on_deal_cards",
                       "on_buy_insurance", "on_game_early_end",
                       "on_summary_game">>

=============================================================================
